---------------------------- MODULE Spec2Model ----------------------------
(***************************************************************************)
(* A model of the slether game server (Go).                                *)
(*                                                                         *)
(* Number conventions.  The Go code computes in float64; the model         *)
(* computes in integers:                                                   *)
(*   - positions are whole pixels;                                         *)
(*   - angles are milliradians (PI = 3142);                                *)
(*   - widths are thousandths of a pixel (WidthScale);                     *)
(*   - cos and sin are Bhaskara's rational approximation, in thousandths.  *)
(* Colours are left out: no operation reads them.                          *)
(* Sequences are 1-based: Segments[1] is the head (index 0 in Go).         *)
(***************************************************************************)
EXTENDS Integers, Sequences, FiniteSets, TLC

(***************************************************************************)
(* Program constants (server/config.go)                                    *)
(***************************************************************************)
WorldCenterX == 10500
WorldCenterY == 10500
WorldRadius == 10500
SpawnMargin == 500
SnakeNormalSpeed == 3
SnakeBoostSpeed == 5
SnakeBoostCostTicks == 3
SnakeInitSegments == 10
SnakeSegmentSpacing == 8
SnakeHeadRadius == 10
SnakeBodyRadius == 8
SnakeMinSegments == 3
SnakeBaseWidth == 10
SnakeMaxWidth == 28
\* SnakeMaxTurnRate = 0.18 rad, in milliradians
SnakeMaxTurnRate == 180
\* SnakeTurnScaleFactor = 0.008, in thousandths
SnakeTurnScaleFactor == 8
DeathFoodPerUnit == 2
FoodLevel1 == 1
FoodLevel3 == 3
FoodLevel5 == 5
FoodLevel10 == 10
GridCellSize == 200
InitialFoodCount == 12500
TargetFoodCount == 12500
FoodRadius == 5
FoodSpawnPerTick == 100
MovingFoodSpawnInterval == 300
MovingFoodMaxCount == 3
MovingFoodSpeed == 4
MovingFoodDirMinTicks == 60
MovingFoodDirMaxTicks == 120
MagnetRadius == 16
MagnetSpeed == 3
ViewportWidth == 1536
ViewportHeight == 864
ViewportBuffer == 200
LeaderboardSize == 10
BotCount == 50
BotRespawnDelay == 100
BotDangerRadius == 80
BotFoodSeekRadius == 500
BotChaseRadius == 300
BotFleeRadius == 200
BotBoundaryBuffer == 500
\* MaxPlayers (README.md, the file that defines it is not in the repository copy)
MaxPlayers == 8000
CollisionCheckRadius == 20

\* math.Pi in milliradians
PI == 3142
\* widths are kept in 1/WidthScale pixels
WidthScale == 1000

(***************************************************************************)
(* Bounds of the model                                                     *)
(***************************************************************************)
\* most segments a snake of SpecSnake may grow to
MaxSegs == 1412
\* operations applied to one snake in SpecSnake
MaxSteps == 4
\* ticks the game loop runs in Spec
MaxTicks == 2
\* messages a client sends in Spec
MaxMsgs == 2
\* SpecWorld: the operations applied to a world in one run
MaxQueries == 2
\* SpecBots: the bots respawned in a run
MaxRespawns == 1
\* SpecHunt: the ticks of a run
MaxHuntTicks == 90
\* SpecMoving: the calls of UpdateMoving in a run
MaxBounces == 4
\* level-10 meals of the giant bot, and ticks it has steered home
GiantMeals == 400
GiantTicks == 190

(***************************************************************************)
(* Arithmetic helpers                                                      *)
(***************************************************************************)
Abs(n) == IF n < 0 THEN -n ELSE n

Min(a, b) == IF a < b THEN a ELSE b

\* x / d rounded to the nearest integer (d > 0)
RoundDiv(x, d) == (2 * x + d) \div (2 * d)

RECURSIVE SqrtIter(_, _, _)
SqrtIter(v, lo, hi) ==
    IF lo >= hi THEN lo
    ELSE LET mid == (lo + hi + 1) \div 2
         IN IF mid * mid <= v THEN SqrtIter(v, mid, hi) ELSE SqrtIter(v, lo, mid - 1)

\* floor(math.Sqrt(v)) for 0 <= v < 2^31
ISqrt(v) == SqrtIter(v, 0, 46340)

RECURSIVE WrapDown(_)
WrapDown(a) == IF a > PI THEN WrapDown(a - 2 * PI) ELSE a

RECURSIVE WrapUp(_)
WrapUp(a) == IF a < -PI THEN WrapUp(a + 2 * PI) ELSE a

\* the two loops "for a > Pi { a -= 2Pi }; for a < -Pi { a += 2Pi }"
normalizeAngle(a) == WrapUp(WrapDown(a))

\* sin of x milliradians, 0 <= x <= PI, in thousandths (Bhaskara I)
SinHalfTurn(x) ==
    LET p == (x * (PI - x)) \div 100
        den == ((5 * PI * PI) \div 100) - 4 * p
    IN RoundDiv(16000 * p, den)

\* math.Sin(a), a in milliradians, result in thousandths
Sin(a) ==
    LET m == a % (2 * PI)
    IN IF m <= PI THEN SinHalfTurn(m) ELSE -SinHalfTurn(m - PI)

\* math.Cos(a), a in milliradians, result in thousandths
Cos(a) == Sin(a + PI \div 2)

\* v * t / 1000 rounded: a length v scaled by a cos or sin in thousandths
Scale(v, t) == RoundDiv(v * t, 1000)

\* atan(small / big) for 0 <= small <= big, big > 0, in milliradians
\* (z * (pi/4 + 0.273 * (1 - z)), within 4 milliradians)
AtanRatio(small, big) ==
    LET z == RoundDiv(1000 * small, big)
    IN RoundDiv(z * (785 + (273 * (1000 - z)) \div 1000), 1000)

\* math.Atan2(y, x) in milliradians, in (-PI, PI]
Atan2(y, x) ==
    IF x = 0 /\ y = 0 THEN 0
    ELSE LET ax == Abs(x)
             ay == Abs(y)
             a == IF ax >= ay THEN AtanRatio(ay, ax) ELSE PI \div 2 - AtanRatio(ax, ay)
             b == IF x < 0 THEN PI - a ELSE a
         IN IF y < 0 THEN -b ELSE b


(***************************************************************************)
(* State                                                                   *)
(***************************************************************************)
VARIABLES
    snake,        \* SpecSnake: the organism under test (a Snake struct)
    dropped,      \* SpecSnake: the food returned by the last operation
    lastOp,       \* SpecSnake: the last operation applied and its result
    steps,        \* SpecSnake: operations applied so far
    foodCounter,  \* the package variable foodCounter (food.go)
    Snakes,       \* World.Snakes: id -> Snake
    Grid,         \* World.Grid: the spatial index as last rebuilt
    deaths,       \* detectCollisions: the map victimID -> killerName
    aliveSnakes,  \* detectCollisions: the ids of the snakes collected alive
    cpc,          \* detectCollisions: the loop the pass is in
    ci,           \* detectCollisions: loop index i (from 1)
    cj,           \* detectCollisions: loop index j (from 1)
    Food,         \* World.Food: id -> Food, the items followed one by one
    foodElsewhere,    \* the normal food items of World.Food not followed
    movingElsewhere,  \* the moving food items of World.Food not followed
    gridTick,     \* the tick in which World.Grid was last rebuilt (0: never)
    wmu,          \* World.mu: the writer holding it and the readers holding it
    tickCount,    \* GameLoop.tickCount
    killMap,      \* GameLoop.killMap: victimID -> killerName
    lpc,          \* the statement the game loop goroutine is at
    boundaryDeaths,   \* tick: the local boundaryDeaths
    connList,     \* tick, broadcast: the local list the loop ranges over
    li,           \* the index in connList the loop is at (from 1)
    leaderboard,  \* tick: the local leaderboard
    toRespawn,    \* tickRespawns: the local toRespawn
    spawning,     \* SpawnBot: the local snake (<<>> outside SpawnBot)
    bots,         \* BotManager.bots: id -> Bot
    botUsedNames, \* the package variable botUsedNames
    botSeq,       \* the bot ids made so far (ids are fresh uuids)
    conns,        \* ConnManager.conns: the ids of the connections registered
    input,        \* Conn.input of each connection
    cmu,          \* Conn.mu of each connection: the goroutine holding it
    closed,       \* Conn.closed of each connection
    rpc,          \* the statement each connection's ReadLoop goroutine is at
    msg,          \* ReadLoop: the message each reader is handling
    msgsLeft,     \* the messages each client may still send in this run
    payload,      \* broadcast, tick: the message built last, to be sent
    diedWith,     \* history: the score each victim of the last tick had when it died
    tickFood,     \* history: the ids in World.Food when the tick unlocked
    sent,         \* history: the kind of message written last to each socket
    queries,      \* history: the grid queries issued, with the grid's tick
    stored,       \* history: the input message each reader stored last, how many it
                  \* has stored (seq) and dropped as malformed (bad, badAt: seq then)
    applied,      \* history: what GetInput returned last for each connection
    crossed       \* history: the tick in which an organism of the world crossed the boundary

snakeVars == <<snake, dropped, lastOp, steps, foodCounter>>

collideVars == <<Snakes, Grid, deaths, aliveSnakes, cpc, ci, cj>>

\* the variables of the running server that the two unit specifications
\* leave alone
serverVars ==
    <<Food, foodElsewhere, movingElsewhere, gridTick, wmu, tickCount, killMap, lpc,
      boundaryDeaths, connList, li, leaderboard, toRespawn, spawning, bots,
      botUsedNames, botSeq, conns, input, cmu, closed, rpc, msg, msgsLeft, payload,
      tickFood, diedWith, sent, queries, stored, applied, crossed>>

\* the variables of the unit specifications that the server leaves alone
unitVars == <<snake, dropped, lastOp, steps, aliveSnakes, cpc, ci, cj>>

vars == <<snakeVars, collideVars, serverVars>>

(***************************************************************************)
(* Food (food.go, stored with game_loop.go)                                *)
(***************************************************************************)
\* newFoodWithLevel; id is the value newFoodID() returns
newFoodWithLevel(id, x, y, level, isMoving) ==
    [ID |-> id, X |-> x, Y |-> y, Value |-> level, Level |-> level,
     IsMoving |-> isMoving, MoveAngle |-> 0, MoveSpeed |-> 0, MoveTicks |-> 0]

\* clampToCircle: a point outside the circle is projected to radius - 1
clampToCircle(x, y, cx, cy, radius) ==
    LET dx == x - cx
        dy == y - cy
        d2 == dx * dx + dy * dy
        dist == ISqrt(d2)
    IN IF d2 <= radius * radius THEN <<x, y>>
       ELSE <<cx + RoundDiv(dx * (radius - 1), dist),
              cy + RoundDiv(dy * (radius - 1), dist)>>

\* NewFoodAt: jx, jy are the two scatter draws, each in -20..20
NewFoodAt(id, x, y, jx, jy) ==
    LET c == clampToCircle(x + jx, y + jy, WorldCenterX, WorldCenterY, WorldRadius)
    IN newFoodWithLevel(id, c[1], c[2], FoodLevel3, FALSE)

\* randomCirclePoint: r and a are the radius and the angle drawn
randomCirclePoint(cx, cy, r, a) == <<cx + Scale(r, Cos(a)), cy + Scale(r, Sin(a))>>

\* NewFood: r, a the point drawn, level3 the draw "rand.Float64() < 0.10"
NewFood(id, r, a, level3) ==
    LET pt == randomCirclePoint(WorldCenterX, WorldCenterY, r, a)
    IN newFoodWithLevel(id, pt[1], pt[2], IF level3 THEN FoodLevel3 ELSE FoodLevel1, FALSE)

\* NewMovingFood: r, a the point drawn, moveAngle and moveTicks the other draws
NewMovingFood(id, r, a, moveAngle, moveTicks) ==
    LET pt == randomCirclePoint(WorldCenterX, WorldCenterY, r, a)
    IN [newFoodWithLevel(id, pt[1], pt[2], FoodLevel10, TRUE)
           EXCEPT !.MoveAngle = moveAngle, !.MoveSpeed = MovingFoodSpeed,
                  !.MoveTicks = moveTicks]

\* UpdateMoving: newAngle and newTicks are the draws made when the direction
\* timer runs out
UpdateMoving(f, newAngle, newTicks) ==
    IF ~f.IsMoving THEN f
    ELSE LET x == f.X + Scale(f.MoveSpeed, Cos(f.MoveAngle))
             y == f.Y + Scale(f.MoveSpeed, Sin(f.MoveAngle))
             dx == x - WorldCenterX
             dy == y - WorldCenterY
             d2 == dx * dx + dy * dy
             dist == ISqrt(d2)
             nx == -RoundDiv(1000 * dx, dist)
             ny == -RoundDiv(1000 * dy, dist)
             vx == Cos(f.MoveAngle)
             vy == Sin(f.MoveAngle)
             dot == RoundDiv(vx * nx + vy * ny, 1000)
             moved == IF d2 > WorldRadius * WorldRadius
                      THEN [f EXCEPT !.MoveAngle = Atan2(vy - RoundDiv(2 * dot * ny, 1000),
                                                         vx - RoundDiv(2 * dot * nx, 1000)),
                                     !.X = WorldCenterX + Scale(WorldRadius - 1, nx),
                                     !.Y = WorldCenterY + Scale(WorldRadius - 1, ny)]
                      ELSE [f EXCEPT !.X = x, !.Y = y]
         IN IF f.MoveTicks - 1 <= 0
            THEN [moved EXCEPT !.MoveAngle = newAngle, !.MoveTicks = newTicks]
            ELSE [moved EXCEPT !.MoveTicks = f.MoveTicks - 1]

(***************************************************************************)
(* Snake (unnamed/part_000)                                                *)
(***************************************************************************)
\* NewSnake: r, spawnAngle and angle are the three random draws
NewSnake(id, name, r, spawnAngle, angle) ==
    LET x == WorldCenterX + Scale(r, Cos(spawnAngle))
        y == WorldCenterY + Scale(r, Sin(spawnAngle))
    IN [ID |-> id, Name |-> name,
        Segments |-> [i \in 1..SnakeInitSegments |->
                        <<x - Scale((i - 1) * SnakeSegmentSpacing, Cos(angle)),
                          y - Scale((i - 1) * SnakeSegmentSpacing, Sin(angle))>>],
        Angle |-> angle, Speed |-> SnakeNormalSpeed, Score |-> SnakeInitSegments,
        Alive |-> TRUE, BoostActive |-> FALSE, BoostTicks |-> 0,
        Width |-> SnakeBaseWidth * WidthScale]

\* Snake.Head (Head is taken by Sequences)
HeadOf(s) == s.Segments[1]

\* squared distance between the heads of two snakes
Dist2Heads(a, b) ==
    (HeadOf(a)[1] - HeadOf(b)[1]) * (HeadOf(a)[1] - HeadOf(b)[1])
    + (HeadOf(a)[2] - HeadOf(b)[2]) * (HeadOf(a)[2] - HeadOf(b)[2])

\* Move: the snake after the move, and whether the new head is out of bounds
Move(s) ==
    LET head == HeadOf(s)
        newX == head[1] + Scale(s.Speed, Cos(s.Angle))
        newY == head[2] + Scale(s.Speed, Sin(s.Angle))
        dx == newX - WorldCenterX
        dy == newY - WorldCenterY
        outOfBounds == (dx * dx + dy * dy) > WorldRadius * WorldRadius
    IN [snake |-> [s EXCEPT !.Segments =
                       <<<<newX, newY>>>> \o SubSeq(s.Segments, 1, Len(s.Segments) - 1)],
        outOfBounds |-> outOfBounds]

\* Grow as it would be if the score were left alone
GrowKeepsScore(s, amount) ==
    LET n == Len(s.Segments)
        tail == s.Segments[n]
        segs == s.Segments \o [i \in 1..amount |-> tail]
        widthGain == (4 * WidthScale * amount) \div Len(segs)
        w == s.Width + widthGain
    IN [s EXCEPT !.Segments = segs,
                 !.Width = IF w > SnakeMaxWidth * WidthScale
                           THEN SnakeMaxWidth * WidthScale ELSE w]

\* Grow without the cap on the width
GrowNoCap(s, amount) ==
    LET n == Len(s.Segments)
        tail == s.Segments[n]
        segs == s.Segments \o [i \in 1..amount |-> tail]
        widthGain == (4 * WidthScale * amount) \div Len(segs)
    IN [s EXCEPT !.Segments = segs, !.Score = s.Score + amount,
                 !.Width = s.Width + widthGain]

Grow(s, amount) ==
    LET n == Len(s.Segments)
        tail == s.Segments[n]
        segs == s.Segments \o [i \in 1..amount |-> tail]
        widthGain == (4 * WidthScale * amount) \div Len(segs)
        w == s.Width + widthGain
    IN [s EXCEPT !.Segments = segs, !.Score = s.Score + amount,
                 !.Width = IF w > SnakeMaxWidth * WidthScale
                           THEN SnakeMaxWidth * WidthScale ELSE w]

\* the turn without the two loops that bring diff into [-Pi, Pi]
TurnDiffNoWrap(s, angle) ==
    LET maxTurn == (SnakeMaxTurnRate * 1000)
                     \div (1000 + Len(s.Segments) * SnakeTurnScaleFactor)
        diff == angle - s.Angle
    IN IF diff > maxTurn THEN maxTurn
       ELSE IF diff < -maxTurn THEN -maxTurn ELSE diff

\* the turn ApplyInput applies: the shortest signed difference, clamped
TurnDiff(s, angle) ==
    LET maxTurn == (SnakeMaxTurnRate * 1000)
                     \div (1000 + Len(s.Segments) * SnakeTurnScaleFactor)
        diff == normalizeAngle(angle - s.Angle)
    IN IF diff > maxTurn THEN maxTurn
       ELSE IF diff < -maxTurn THEN -maxTurn ELSE diff

\* ApplyInput as it would be without the test on SnakeMinSegments
ApplyInputNoFloor(s, angle, boost, dropFood, id) ==
    LET turned == [s EXCEPT !.Angle = s.Angle + TurnDiff(s, angle),
                            !.BoostActive = boost]
        n == Len(s.Segments)
    IN IF boost
       THEN LET ticks == s.BoostTicks + 1
                b == [turned EXCEPT !.Speed = SnakeBoostSpeed, !.BoostTicks = ticks]
            IN IF ticks % SnakeBoostCostTicks = 0 /\ n > 1
               THEN [snake |-> [b EXCEPT !.Segments = SubSeq(s.Segments, 1, n - 1),
                                         !.Score = s.Score - 1],
                     food |-> <<>>]
               ELSE [snake |-> b, food |-> <<>>]
       ELSE [snake |-> [turned EXCEPT !.Speed = SnakeNormalSpeed, !.BoostTicks = 0],
             food |-> <<>>]

\* ApplyInput: dropFood is the draw "rand.Float64() < 0.5"; id the next food id.
\* The result is the snake and the food dropped (<<>> for nil).
ApplyInput(s, angle, boost, dropFood, id) ==
    LET turned == [s EXCEPT !.Angle = s.Angle + TurnDiff(s, angle),
                            !.BoostActive = boost]
        n == Len(s.Segments)
    IN IF boost
       THEN LET ticks == s.BoostTicks + 1
                b == [turned EXCEPT !.Speed = SnakeBoostSpeed, !.BoostTicks = ticks]
            IN IF ticks % SnakeBoostCostTicks = 0 /\ n > SnakeMinSegments
               THEN LET tail == s.Segments[n]
                        widthLoss == (4 * WidthScale) \div n
                        w == s.Width - widthLoss
                        cut == [b EXCEPT !.Segments = SubSeq(s.Segments, 1, n - 1),
                                         !.Score = s.Score - 1,
                                         !.Width = IF w < SnakeBaseWidth * WidthScale
                                                   THEN SnakeBaseWidth * WidthScale
                                                   ELSE w]
                    IN [snake |-> cut,
                        food |-> IF dropFood
                                 THEN <<newFoodWithLevel(id, tail[1], tail[2],
                                                         FoodLevel3, FALSE)>>
                                 ELSE <<>>]
               ELSE [snake |-> b, food |-> <<>>]
       ELSE [snake |-> [turned EXCEPT !.Speed = SnakeNormalSpeed, !.BoostTicks = 0],
             food |-> <<>>]

\* the totalDrops for which float64(totalDrops) * 0.7 falls just below the
\* integer 7 * totalDrops / 10 (IEEE double rounding), for totalDrops <= 3000
RoundsDown ==
    {90, 170, 180, 330, 340, 350, 360} \cup {10 * k : k \in 65..73}
    \cup {10 * k : k \in 129..146} \cup {10 * k : k \in 257..292}

\* int(float64(totalDrops) * 0.7)
DropCount(totalDrops) ==
    IF totalDrops \in RoundsDown THEN (7 * totalDrops) \div 10 - 1
    ELSE (7 * totalDrops) \div 10

\* DropFood: the snake marked dead and the food made of its body; firstId is
\* the id of the first item, jx and jy the scatter of NewFoodAt (one draw is
\* used for every item of the drop)
DropFood(s, firstId, jx, jy) ==
    LET totalDrops == Len(s.Segments) \div DeathFoodPerUnit
        dropCount == DropCount(totalDrops)
    IN [snake |-> [s EXCEPT !.Alive = FALSE],
        food |-> [k \in 1..dropCount |->
                    LET seg == s.Segments[DeathFoodPerUnit * (k - 1) + 1]
                    IN NewFoodAt(firstId + k - 1, seg[1], seg[2], jx, jy)]]


(***************************************************************************)
(* SpatialGrid (unnamed/part_003).  A grid is a function from cell keys    *)
(* <<cx, cy>> to the sequence of entries appended to that cell; food ids   *)
(* are the numbers n of "f<n>", NoFoodID is the empty foodID, "" the empty *)
(* snakeID.                                                                *)
(***************************************************************************)
NoFoodID == 0

\* NewSpatialGrid / Clear: no cell holds anything
EmptyGrid == [k \in {} |-> <<>>]

\* math.Floor(v / cellSize)
keyFor(x, y) == <<x \div GridCellSize, y \div GridCellSize>>

\* g.cells[k], empty for a cell never written
CellAt(g, k) == IF k \in DOMAIN g THEN g[k] ELSE <<>>

\* g.cells[k] = append(g.cells[k], e)
AppendEntry(g, k, e) ==
    IF k \in DOMAIN g THEN [g EXCEPT ![k] = Append(@, e)] ELSE g @@ (k :> <<e>>)

\* the entry InsertFood appends for a food item
FoodEntry(f) ==
    [foodID |-> f.ID, snakeID |-> "", segIdx |-> 0, x |-> f.X, y |-> f.Y]

\* InsertFood
InsertFood(g, f) == AppendEntry(g, keyFor(f.X, f.Y), FoodEntry(f))

\* the entries InsertSnakeBody appends with the head (Go index 0) included
BodyEntriesWithHead(s) ==
    [i \in 1..Len(s.Segments) |->
        [foodID |-> NoFoodID, snakeID |-> s.ID, segIdx |-> i - 1,
         x |-> s.Segments[i][1], y |-> s.Segments[i][2]]]

\* the entries InsertSnakeBody appends, in order: every segment but the head
BodyEntries(s) ==
    [i \in 1..(Len(s.Segments) - 1) |->
        [foodID |-> NoFoodID, snakeID |-> s.ID, segIdx |-> i,
         x |-> s.Segments[i + 1][1], y |-> s.Segments[i + 1][2]]]

\* the grid after appending the entries, in order, to an empty grid: each cell
\* holds the entries whose key it is, in the order they were appended
GridOf(entries) ==
    LET keys == {keyFor(entries[i].x, entries[i].y) : i \in 1..Len(entries)}
    IN [k \in keys |-> SelectSeq(entries, LAMBDA e : keyFor(e.x, e.y) = k)]

\* the k-th cell the two nested loops of a query visit: cx outer, cy inner
CellNo(k, minCX, bounds) ==
    LET rows == bounds[2] - bounds[1] + 1
    IN <<minCX + ((k - 1) \div rows), bounds[1] + ((k - 1) % rows)>>

RECURSIVE CellSpan(_, _, _, _, _)
\* the entries of the lo-th to the hi-th cell the loops visit
CellSpan(g, lo, hi, minCX, bounds) ==
    IF lo > hi THEN <<>>
    ELSE IF lo = hi THEN CellAt(g, CellNo(lo, minCX, bounds))
    ELSE LET mid == (lo + hi) \div 2
         IN CellSpan(g, lo, mid, minCX, bounds) \o CellSpan(g, mid + 1, hi, minCX, bounds)

\* the entries of the cells minCX..maxCX x minCY..maxCY in the order the two
\* nested loops of a query visit them; bounds is <<minCY, maxCY>>
CellRun(g, minCX, maxCX, bounds) ==
    CellSpan(g, 1, (maxCX - minCX + 1) * (bounds[2] - bounds[1] + 1), minCX, bounds)

\* a radius query that looks only at the cell the point lies in
CellsAroundOwnCell(g, x, y, radius) == CellAt(g, keyFor(x, y))

\* the entries a radius query looks at, before any filter
CellsAround(g, x, y, radius) ==
    LET minCX == (x - radius) \div GridCellSize
        maxCX == (x + radius) \div GridCellSize
        minCY == (y - radius) \div GridCellSize
        maxCY == (y + radius) \div GridCellSize
    IN CellRun(g, minCX, maxCX, <<minCY, maxCY>>)

\* NearbySnakeBody without the test on excludeID
NearbySnakeBodyAny(g, x, y, radius, excludeID) ==
    LET InRange(e) == /\ e.snakeID # ""
                      /\ (e.x - x) * (e.x - x) + (e.y - y) * (e.y - y) <= radius * radius
    IN SelectSeq(CellsAround(g, x, y, radius), InRange)

NearbySnakeBody(g, x, y, radius, excludeID) ==
    LET InRange(e) == /\ e.snakeID # "" /\ e.snakeID # excludeID
                      /\ (e.x - x) * (e.x - x) + (e.y - y) * (e.y - y) <= radius * radius
    IN SelectSeq(CellsAround(g, x, y, radius), InRange)

\* NearbyFood: the ids of the food entries within radius
NearbyFood(g, x, y, radius) ==
    LET InRange(e) == /\ e.foodID # NoFoodID
                      /\ (e.x - x) * (e.x - x) + (e.y - y) * (e.y - y) <= radius * radius
        hits == SelectSeq(CellsAround(g, x, y, radius), InRange)
    IN [i \in 1..Len(hits) |-> hits[i].foodID]

(***************************************************************************)
(* World (server/world.go).  Snakes and Food are Go maps: functions whose  *)
(* domain is the set of keys present.  A loop over a map visits the keys   *)
(* in an order Go chooses anew each time; the order is an argument.        *)
(***************************************************************************)
RECURSIVE AllBodyEntries(_, _)
\* what the loop of RebuildGrid over w.Snakes appends: the bodies of the live
\* snakes, in the order of the loop
AllBodyEntries(snakes, order) ==
    IF order = <<>> THEN <<>>
    ELSE (IF snakes[order[1]].Alive THEN BodyEntries(snakes[order[1]]) ELSE <<>>)
         \o AllBodyEntries(snakes, Tail(order))

\* RebuildGrid: foodOrder and snakeOrder are the orders of the two map loops
RebuildGrid(food, snakes, foodOrder, snakeOrder) ==
    GridOf([i \in 1..Len(foodOrder) |-> FoodEntry(food[foodOrder[i]])]
           \o AllBodyEntries(snakes, snakeOrder))

\* the orders a loop over a map with these keys may take
Orders(keys) ==
    {o \in [1..Cardinality(keys) -> keys] : \A i, j \in DOMAIN o : i # j => o[i] # o[j]}

(***************************************************************************)
(* GameLoop.detectCollisions (server/game_loop.go).  The argument dm is   *)
(* the Go map deaths, victimID -> killerName.                              *)
(***************************************************************************)
NoDeaths == [k \in {} |-> ""]

\* deaths[id] = name
SetDeath(dm, id, name) ==
    IF id \in DOMAIN dm THEN [dm EXCEPT ![id] = name] ELSE dm @@ (id :> name)

RECURSIVE BodyHits(_, _, _, _)
\* the loop over the entries NearbySnakeBody returned for sn
BodyHits(dm, snakes, sn, nearby) ==
    IF nearby = <<>> THEN dm
    ELSE LET entry == nearby[1]
             head == HeadOf(sn)
             dx == head[1] - entry.x
             dy == head[2] - entry.y
             reach == SnakeHeadRadius + SnakeBodyRadius
             hit == /\ entry.snakeID \in DOMAIN snakes
                    /\ snakes[entry.snakeID].Alive
                    /\ dx * dx + dy * dy < reach * reach
                    /\ sn.ID \notin DOMAIN dm
         IN BodyHits(IF hit THEN SetDeath(dm, sn.ID, snakes[entry.snakeID].Name)
                     ELSE dm,
                     snakes, sn, Tail(nearby))

\* one pass of the head-to-body loop: the sn with this id against the grid
HeadBodyStep(dm, snakes, grid, id) ==
    LET sn == snakes[id]
        head == HeadOf(sn)
    IN IF id \in DOMAIN dm THEN dm
       ELSE BodyHits(dm, snakes, sn,
                     NearbySnakeBody(grid, head[1], head[2], CollisionCheckRadius, id))

\* the head-to-head test with a tie sparing both
HeadHeadStepStrict(dm, snakes, aId, bId) ==
    LET a == snakes[aId]
        b == snakes[bId]
        dx == HeadOf(a)[1] - HeadOf(b)[1]
        dy == HeadOf(a)[2] - HeadOf(b)[2]
    IN IF aId \in DOMAIN dm \/ bId \in DOMAIN dm THEN dm
       ELSE IF dx * dx + dy * dy < (SnakeHeadRadius * 2) * (SnakeHeadRadius * 2)
       THEN LET d1 == IF a.Score > b.Score THEN SetDeath(dm, bId, a.Name) ELSE dm
            IN IF b.Score > a.Score THEN SetDeath(d1, aId, b.Name) ELSE d1
       ELSE dm

\* one pass of the head-to-head loop: the pair (a, b)
HeadHeadStep(dm, snakes, aId, bId) ==
    LET a == snakes[aId]
        b == snakes[bId]
        dx == HeadOf(a)[1] - HeadOf(b)[1]
        dy == HeadOf(a)[2] - HeadOf(b)[2]
    IN IF aId \in DOMAIN dm \/ bId \in DOMAIN dm THEN dm
       ELSE IF dx * dx + dy * dy < (SnakeHeadRadius * 2) * (SnakeHeadRadius * 2)
       THEN LET d1 == IF a.Score >= b.Score THEN SetDeath(dm, bId, a.Name) ELSE dm
            IN IF b.Score >= a.Score THEN SetDeath(d1, aId, b.Name) ELSE d1
       ELSE dm

\* the ids of the live snakes, in the order the loop over the map found them
AliveIn(snakes, order) == SelectSeq(order, LAMBDA id : snakes[id].Alive)

RECURSIVE BodyPass(_, _, _, _, _)
\* the head-to-body loop from index i on
BodyPass(dm, snakes, grid, alive, i) ==
    IF i > Len(alive) THEN dm
    ELSE BodyPass(HeadBodyStep(dm, snakes, grid, alive[i]), snakes, grid, alive, i + 1)

RECURSIVE PairPass(_, _, _, _, _)
\* the head-to-head loops from the pair (i, j) on
PairPass(dm, snakes, alive, i, j) ==
    IF i > Len(alive) THEN dm
    ELSE IF j > Len(alive) THEN PairPass(dm, snakes, alive, i + 1, i + 2)
    ELSE PairPass(HeadHeadStep(dm, snakes, alive[i], alive[j]), snakes, alive, i, j + 1)

\* detectCollisions: order is the order of the loop that collects aliveSnakes
detectCollisions(snakes, grid, order) ==
    LET alive == AliveIn(snakes, order)
    IN PairPass(BodyPass(NoDeaths, snakes, grid, alive, 1), snakes, alive, 1, 2)

(***************************************************************************)
(* Bot AI (server/bot.go).  decideBotInput is a chain of priorities; each  *)
(* operator below is the chain from one priority on.  The result is the    *)
(* bot as updated, the input chosen and the grid queries issued.  rnd      *)
(* holds the random draws of the call, order the order of a loop over      *)
(* w.Snakes.                                                               *)
(***************************************************************************)
\* a Bot as SpawnBot makes it
NewBot(id, targetAngle, wander) ==
    [ID |-> id, wanderTicks |-> wander, targetAngle |-> targetAngle, boostTicks |-> 0,
     respawnIn |-> 0, seekTicks |-> 0, lastScore |-> 0, lastFoodDist |-> 0,
     orbitCount |-> 0, deathFoodX |-> 0, deathFoodY |-> 0, deathFoodTicks |-> 0]

\* what decideBotInput returns, with the queries it issued on the way
BotChoice(bot, angle, boost, asked) ==
    [bot |-> bot, angle |-> angle, boost |-> boost, asked |-> asked]

\* the smallest element of a non-empty set of numbers
MinOf(S) == CHOOSE m \in S : \A n \in S : m <= n

\* Priority 6: roam
BotRoam(bot, sn, boost, asked, rnd) ==
    LET head == HeadOf(sn)
        pt == randomCirclePoint(WorldCenterX, WorldCenterY, rnd.roamR, rnd.roamA)
        b1 == IF bot.wanderTicks <= 0
              THEN [bot EXCEPT !.targetAngle = Atan2(pt[2] - head[2], pt[1] - head[1]),
                               !.wanderTicks = rnd.roamTicks]
              ELSE bot
        b2 == [b1 EXCEPT !.wanderTicks = b1.wanderTicks - 1]
    IN BotChoice(b2, b2.targetAngle, boost, asked)

\* "force a new direction away from current heading" (lines 279-285, 294-300)
BotBreakOut(bot, sn, asked, rnd) ==
    LET b == [bot EXCEPT !.orbitCount = 0, !.seekTicks = 0, !.lastFoodDist = 0,
                         !.targetAngle = sn.Angle + PI \div 2 + rnd.turn,
                         !.wanderTicks = rnd.breakTicks]
    IN BotChoice(b, b.targetAngle, FALSE, asked)

\* Priority 5: seek nearby food
BotSeek(bot, sn, foodMap, grid, boost, asked0, rnd) ==
    LET head == HeadOf(sn)
        asked == asked0 \cup {"food"}
        b0 == IF sn.Score > bot.lastScore
              THEN [bot EXCEPT !.seekTicks = 0, !.orbitCount = 0, !.lastFoodDist = 0]
              ELSE bot
        b1 == [b0 EXCEPT !.lastScore = sn.Score]
        nearFoodIDs == NearbyFood(grid, head[1], head[2], BotFoodSeekRadius)
        D2(i) == LET f == foodMap[nearFoodIDs[i]]
                 IN (f.X - head[1]) * (f.X - head[1]) + (f.Y - head[2]) * (f.Y - head[2])
        InFront(i) ==
            /\ nearFoodIDs[i] \in DOMAIN foodMap
            /\ LET f == foodMap[nearFoodIDs[i]]
                   foodAngle == Atan2(f.Y - head[2], f.X - head[1])
               IN Abs(normalizeAngle(foodAngle - sn.Angle)) <= PI \div 2
        cands == {i \in 1..Len(nearFoodIDs) : InFront(i)}
    IN IF Len(nearFoodIDs) > 0 /\ b1.seekTicks < 60 /\ cands # {}
       THEN LET best == MinOf({i \in cands : \A j \in cands : D2(i) <= D2(j)})
                bestFood == foodMap[nearFoodIDs[best]]
                bestDist == ISqrt(D2(best))
                orbit == IF b1.lastFoodDist > 0 /\ bestDist >= b1.lastFoodDist - 1
                         THEN b1.orbitCount + 1 ELSE 0
                b2 == [b1 EXCEPT !.orbitCount = orbit, !.lastFoodDist = bestDist]
            IN IF orbit >= 8 THEN BotBreakOut(b2, sn, asked, rnd)
               ELSE LET ta == Atan2(bestFood.Y - head[2], bestFood.X - head[1])
                    IN BotChoice([b2 EXCEPT !.targetAngle = ta, !.seekTicks = b2.seekTicks + 1],
                                 ta, boost, asked)
       ELSE IF b1.seekTicks >= 60 THEN BotBreakOut(b1, sn, asked, rnd)
       ELSE BotRoam(b1, sn, boost, asked, rnd)

\* Priority 4.5: rush to the death food zone
BotRush(bot, sn, foodMap, grid, boost, asked, rnd) ==
    IF bot.deathFoodTicks > 0
    THEN LET head == HeadOf(sn)
             ddx == bot.deathFoodX - head[1]
             ddy == bot.deathFoodY - head[2]
             b1 == [bot EXCEPT !.deathFoodTicks = bot.deathFoodTicks - 1]
         IN IF ddx * ddx + ddy * ddy < 30 * 30
            THEN BotSeek([b1 EXCEPT !.deathFoodTicks = 0], sn, foodMap, grid, boost, asked, rnd)
            ELSE LET ta == Atan2(ddy, ddx)
                 IN BotChoice([b1 EXCEPT !.targetAngle = ta], ta,
                              boost \/ Len(sn.Segments) > SnakeMinSegments + 5, asked)
    ELSE BotSeek(bot, sn, foodMap, grid, boost, asked, rnd)

\* the positions in order of the other live snakes whose head is within
\* radius of sn's head and whose score passes the test
HeadsNear(sn, snakes, order, radius, Test(_)) ==
    {i \in 1..Len(order) :
        LET other == snakes[order[i]]
        IN /\ other.ID # sn.ID /\ other.Alive
           /\ Dist2Heads(sn, other) < radius * radius
           /\ Test(other.Score)}

\* Priority 4: chase smaller snakes
BotChase(bot, sn, snakes, foodMap, grid, order, boost, asked, rnd) ==
    LET head == HeadOf(sn)
        Smaller(score) == score < sn.Score
        found == HeadsNear(sn, snakes, order, BotChaseRadius, Smaller)
    IN IF found # {}
       THEN LET otherHead == HeadOf(snakes[order[MinOf(found)]])
                ta == Atan2(otherHead[2] - head[2], otherHead[1] - head[1])
            IN BotChoice([bot EXCEPT !.targetAngle = ta, !.wanderTicks = rnd.wander], ta,
                         boost \/ Len(sn.Segments) > SnakeMinSegments + 5, asked)
       ELSE BotRush(bot, sn, foodMap, grid, boost, asked, rnd)

\* Priority 3: flee bigger snakes
BotFlee(bot, sn, snakes, foodMap, grid, order, asked, rnd) ==
    LET head == HeadOf(sn)
        Bigger(score) == score > sn.Score
        found == HeadsNear(sn, snakes, order, BotFleeRadius, Bigger)
    IN IF found # {}
       THEN LET otherHead == HeadOf(snakes[order[MinOf(found)]])
                ta == Atan2(head[2] - otherHead[2], head[1] - otherHead[1])
            IN BotChoice([bot EXCEPT !.targetAngle = ta, !.boostTicks = 29,
                                     !.wanderTicks = rnd.wander], ta, TRUE, asked)
       ELSE IF bot.boostTicks > 0
       THEN BotChase([bot EXCEPT !.boostTicks = bot.boostTicks - 1], sn, snakes, foodMap,
                     grid, order, TRUE, asked, rnd)
       ELSE BotChase(bot, sn, snakes, foodMap, grid, order, FALSE, asked, rnd)

\* Priority 2 as it would be if the boost countdown of a flee were honoured
BotDangerKeepsBoost(bot, sn, snakes, foodMap, grid, order, rnd) ==
    LET head == HeadOf(sn)
        nearby == NearbySnakeBody(grid, head[1], head[2], BotDangerRadius, sn.ID)
        Diff(i) == normalizeAngle(Atan2(nearby[i].y - head[2], nearby[i].x - head[1])
                                  - sn.Angle)
        inPath == {i \in 1..Len(nearby) : Abs(Diff(i)) < PI \div 4}
    IN IF inPath # {}
       THEN LET ta == IF Diff(MinOf(inPath)) >= 0 THEN sn.Angle - PI \div 2
                      ELSE sn.Angle + PI \div 2
            IN BotChoice([bot EXCEPT !.targetAngle = ta, !.wanderTicks = rnd.wander], ta,
                         bot.boostTicks > 0, {"body"})
       ELSE BotFlee(bot, sn, snakes, foodMap, grid, order, {"body"}, rnd)

\* Priority 2: danger avoidance; the first query of the grid
BotDanger(bot, sn, snakes, foodMap, grid, order, rnd) ==
    LET head == HeadOf(sn)
        nearby == NearbySnakeBody(grid, head[1], head[2], BotDangerRadius, sn.ID)
        Diff(i) == normalizeAngle(Atan2(nearby[i].y - head[2], nearby[i].x - head[1])
                                  - sn.Angle)
        inPath == {i \in 1..Len(nearby) : Abs(Diff(i)) < PI \div 4}
    IN IF inPath # {}
       THEN LET ta == IF Diff(MinOf(inPath)) >= 0 THEN sn.Angle - PI \div 2
                      ELSE sn.Angle + PI \div 2
            IN BotChoice([bot EXCEPT !.targetAngle = ta, !.wanderTicks = rnd.wander], ta,
                         FALSE, {"body"})
       ELSE BotFlee(bot, sn, snakes, foodMap, grid, order, {"body"}, rnd)

\* decideBotInput: Priority 1, boundary avoidance, returns before any query
decideBotInput(bot, sn, snakes, foodMap, grid, order, rnd) ==
    LET head == HeadOf(sn)
        dx == head[1] - WorldCenterX
        dy == head[2] - WorldCenterY
    IN IF dx * dx + dy * dy > (WorldRadius - BotBoundaryBuffer) * (WorldRadius - BotBoundaryBuffer)
       THEN LET ta == Atan2(WorldCenterY - head[2], WorldCenterX - head[1])
            IN BotChoice([bot EXCEPT !.targetAngle = ta, !.wanderTicks = rnd.wander], ta,
                         FALSE, {})
       ELSE BotDanger(bot, sn, snakes, foodMap, grid, order, rnd)

(***************************************************************************)
(* The steps of a tick (server/game_loop.go, server/bot.go,                *)
(* server/world.go).  A world w is a record of the World's maps and grid   *)
(* and the food counter.  Of the 12500 food items and 50 bots of the       *)
(* program the model follows one by one those near the snakes it follows;  *)
(* the others, too far to be reached in the ticks of a run, are counted:   *)
(* foodElsewhere, movingElsewhere.                                         *)
(***************************************************************************)
\* m with key k set to v (a Go map assignment)
MapSet(m, k, v) == IF k \in DOMAIN m THEN [m EXCEPT ![k] = v] ELSE m @@ (k :> v)

\* delete(m, k)
MapDelete(m, k) == [x \in DOMAIN m \ {k} |-> m[x]]

\* AddFood: the items of a sequence of food put into the food map
AddFood(foodMap, items) ==
    LET ids == {items[i].ID : i \in 1..Len(items)}
    IN [id \in DOMAIN foodMap \cup ids |->
          IF id \in ids THEN items[CHOOSE i \in 1..Len(items) : items[i].ID = id]
          ELSE foodMap[id]]

\* AddFood for the items DropFood returns, whose ids are firstId, firstId + 1, ...
AddDrop(foodMap, items, firstId) ==
    [id \in DOMAIN foodMap \cup {firstId + k - 1 : k \in 1..Len(items)} |->
        IF id >= firstId /\ id < firstId + Len(items) THEN items[id - firstId + 1]
        ELSE foodMap[id]]

\* the keys of the food map in the order the model's loops over w.Food take:
\* ascending ids
FoodOrder(foodMap) ==
    IF DOMAIN foodMap = {} THEN <<>>
    ELSE LET lo == MinOf(DOMAIN foodMap)
             hi == CHOOSE m \in DOMAIN foodMap : \A n \in DOMAIN foodMap : n <= m
         IN SelectSeq([i \in 1..(hi - lo + 1) |-> lo + i - 1],
                      LAMBDA id : id \in DOMAIN foodMap)

\* updateMovingFood
updateMovingFood(w, rnd) ==
    [w EXCEPT !.Food = [id \in DOMAIN w.Food |->
                           UpdateMoving(w.Food[id], rnd.moveAngle, rnd.moveTicks)]]

\* Update, lines 116-123: the bot's snake has taken its input (inp is what
\* ApplyInput returned) and moves; r carries the world, the bots and the grid
\* queries issued so far
BotMoves(r, botID, choice, inp, rnd) ==
    LET w == r.w
        mv == Move(inp.snake)
        counter1 == w.foodCounter + Len(inp.food)
        drop == DropFood(mv.snake, counter1 + 1, rnd.jx, rnd.jy)
    IN [w |-> IF mv.outOfBounds
              THEN [w EXCEPT !.Snakes[botID] = drop.snake,
                             !.Food = AddDrop(AddFood(w.Food, inp.food), drop.food,
                                              counter1 + 1),
                             !.foodCounter = counter1 + Len(drop.food)]
              ELSE [w EXCEPT !.Snakes[botID] = mv.snake,
                             !.Food = AddFood(w.Food, inp.food),
                             !.foodCounter = counter1],
        bots |-> [r.bots EXCEPT ![botID] = choice.bot],
        asked |-> r.asked \cup {[by |-> botID, kind |-> k] : k \in choice.asked}]

\* Update, lines 113-116: the bot has decided (choice is what decideBotInput
\* returned) and its snake takes the input
BotTurns(r, botID, choice, rnd) ==
    BotMoves(r, botID, choice,
             ApplyInput(r.w.Snakes[botID], choice.angle, choice.boost, rnd.dropFood,
                        r.w.foodCounter + 1),
             rnd)

\* the body of the loop of BotManager.Update for one bot
BotStep(r, botID, order, rnd) ==
    IF botID \notin DOMAIN r.w.Snakes \/ ~r.w.Snakes[botID].Alive THEN r
    ELSE BotTurns(r, botID,
                  decideBotInput(r.bots[botID], r.w.Snakes[botID], r.w.Snakes, r.w.Food,
                                 r.w.Grid, order, rnd),
                  rnd)

RECURSIVE BotLoop(_, _, _, _)
\* the loop of BotManager.Update over bm.bots, in botOrder
BotLoop(r, botOrder, order, rnd) ==
    IF botOrder = <<>> THEN r
    ELSE BotLoop(BotStep(r, botOrder[1], order, rnd), Tail(botOrder), order, rnd)

\* BotManager.Update: the world and the bots after it, and the queries issued
BotsUpdate(w, bm, botOrder, order, rnd) ==
    BotLoop([w |-> w, bots |-> bm, asked |-> {}], botOrder, order, rnd)

\* tick, lines 59-63: the bots whose snake is in the world and not alive
DeadBots(w, bm) ==
    {botID \in DOMAIN bm : botID \in DOMAIN w.Snakes /\ ~w.Snakes[botID].Alive}

\* tick, lines 68-79, for one connection: GetInput has returned inp
PlayerStep(w, id, inp, rnd) ==
    LET ai == ApplyInput(w.Snakes[id], inp.Angle, inp.Boost, rnd.dropFood,
                         w.foodCounter + 1)
        mv == Move(ai.snake)
    IN [w |-> [w EXCEPT !.Snakes[id] = mv.snake,
                        !.Food = AddFood(w.Food, ai.food),
                        !.foodCounter = w.foodCounter + Len(ai.food)],
        outOfBounds |-> mv.outOfBounds]

\* tick, lines 90-94: boundary deaths merged into the deaths map
MergeBoundary(dm, boundary) ==
    [id \in DOMAIN dm \cup boundary |-> IF id \in DOMAIN dm THEN dm[id] ELSE "Boundary"]

RECURSIVE ProcessDeathsAgain(_, _, _, _)
\* the loop of lines 97-106 as it would be without the test on snake.Alive
ProcessDeathsAgain(r, dm, victims, rnd) ==
    IF victims = <<>> THEN r
    ELSE LET id == victims[1]
             w == r.w
         IN IF id \notin DOMAIN w.Snakes
            THEN ProcessDeathsAgain(r, dm, Tail(victims), rnd)
            ELSE LET drop == DropFood(w.Snakes[id], w.foodCounter + 1, rnd.jx, rnd.jy)
                 IN ProcessDeathsAgain(
                        [w |-> [w EXCEPT !.Snakes[id] = drop.snake,
                                         !.Food = AddDrop(w.Food, drop.food, w.foodCounter + 1),
                                         !.foodCounter = w.foodCounter + Len(drop.food)],
                         killMap |-> MapSet(r.killMap, id, dm[id])],
                        dm, Tail(victims), rnd)

RECURSIVE ProcessDeaths(_, _, _, _)
\* tick, lines 97-106: r carries the world and the kill map; victims is the
\* order of the loop over deaths
ProcessDeaths(r, dm, victims, rnd) ==
    IF victims = <<>> THEN r
    ELSE LET id == victims[1]
             w == r.w
         IN IF id \notin DOMAIN w.Snakes \/ ~w.Snakes[id].Alive
            THEN ProcessDeaths(r, dm, Tail(victims), rnd)
            ELSE LET drop == DropFood(w.Snakes[id], w.foodCounter + 1, rnd.jx, rnd.jy)
                 IN ProcessDeaths(
                        [w |-> [w EXCEPT !.Snakes[id] = drop.snake,
                                         !.Food = AddDrop(w.Food, drop.food, w.foodCounter + 1),
                                         !.foodCounter = w.foodCounter + Len(drop.food)],
                         killMap |-> MapSet(r.killMap, id, dm[id])],
                        dm, Tail(victims), rnd)

\* HandleDeaths, lines 323-341: the bot that is told to rush to the victim
NotifyKiller(bm, w, victimID, killerName, botOrder) ==
    LET found == {i \in 1..Len(botOrder) :
                    /\ botOrder[i] \in DOMAIN w.Snakes
                    /\ w.Snakes[botOrder[i]].Alive
                    /\ w.Snakes[botOrder[i]].Name = killerName}
    IN IF victimID \notin DOMAIN w.Snakes \/ found = {} THEN bm
       ELSE LET head == HeadOf(w.Snakes[victimID])
            IN [bm EXCEPT ![botOrder[MinOf(found)]] =
                   [@ EXCEPT !.deathFoodX = head[1], !.deathFoodY = head[2],
                             !.deathFoodTicks = 80]]

RECURSIVE NotifyKillers(_, _, _, _, _)
NotifyKillers(bm, w, dm, victims, botOrder) ==
    IF victims = <<>> THEN bm
    ELSE NotifyKillers(NotifyKiller(bm, w, victims[1], dm[victims[1]], botOrder),
                       w, dm, Tail(victims), botOrder)

\* HandleDeaths that starts the countdown of every dead bot it finds
HandleDeathsRestarts(bm, w, dm, victims, botOrder) ==
    LET told == NotifyKillers(bm, w, dm, victims, botOrder)
    IN [botID \in DOMAIN told |->
          IF botID \notin DOMAIN w.Snakes \/ ~w.Snakes[botID].Alive
          THEN [told[botID] EXCEPT !.respawnIn = BotRespawnDelay]
          ELSE told[botID]]

\* HandleDeaths: victims is the order of the loop over deaths
HandleDeaths(bm, w, dm, victims, botOrder) ==
    LET told == NotifyKillers(bm, w, dm, victims, botOrder)
    IN [botID \in DOMAIN told |->
          IF (botID \notin DOMAIN w.Snakes \/ ~w.Snakes[botID].Alive)
             /\ told[botID].respawnIn = 0
          THEN [told[botID] EXCEPT !.respawnIn = BotRespawnDelay]
          ELSE told[botID]]

RECURSIVE MagnetPull(_, _, _)
\* applyFoodMagnet, lines 197-216: the food map after the head at <<hx, hy>>
\* has pulled the food items of fids, in order
MagnetPull(foodMap, head, fids) ==
    IF fids = <<>> THEN foodMap
    ELSE LET fid == fids[1]
         IN IF fid \notin DOMAIN foodMap THEN MagnetPull(foodMap, head, Tail(fids))
            ELSE LET f == foodMap[fid]
                     dx == head[1] - f.X
                     dy == head[2] - f.Y
                     d2 == dx * dx + dy * dy
                     dist == ISqrt(d2)
                     moveBy == Min(MagnetSpeed, dist)
                     reach == SnakeHeadRadius + FoodRadius
                 IN IF d2 <= reach * reach THEN MagnetPull(foodMap, head, Tail(fids))
                    ELSE MagnetPull(
                             [foodMap EXCEPT ![fid] =
                                 [f EXCEPT !.X = f.X + RoundDiv(dx * moveBy, dist),
                                           !.Y = f.Y + RoundDiv(dy * moveBy, dist)]],
                             head, Tail(fids))

RECURSIVE applyFoodMagnet(_, _)
\* applyFoodMagnet: order is the order of the loop over w.Snakes
applyFoodMagnet(w, order) ==
    IF order = <<>> THEN w
    ELSE LET sn == w.Snakes[order[1]]
             head == HeadOf(sn)
         IN IF ~sn.Alive THEN applyFoodMagnet(w, Tail(order))
            ELSE applyFoodMagnet(
                     [w EXCEPT !.Food =
                         MagnetPull(w.Food, head,
                                    NearbyFood(w.Grid, head[1], head[2], MagnetRadius))],
                     Tail(order))

RECURSIVE EatKeepsFood(_, _, _)
\* collectFood that grows the snake and leaves the item in the world
EatKeepsFood(w, id, fids) ==
    IF fids = <<>> THEN w
    ELSE LET fid == fids[1]
         IN IF fid \notin DOMAIN w.Food THEN EatKeepsFood(w, id, Tail(fids))
            ELSE EatKeepsFood([w EXCEPT !.Snakes[id] = Grow(w.Snakes[id], w.Food[fid].Value)],
                              id, Tail(fids))

RECURSIVE Eat(_, _, _)
\* collectFood, lines 300-307: snake id eats the food items of fids, in order
Eat(w, id, fids) ==
    IF fids = <<>> THEN w
    ELSE LET fid == fids[1]
         IN IF fid \notin DOMAIN w.Food THEN Eat(w, id, Tail(fids))
            ELSE Eat([w EXCEPT !.Snakes[id] = Grow(w.Snakes[id], w.Food[fid].Value),
                               !.Food = MapDelete(w.Food, fid)],
                     id, Tail(fids))

RECURSIVE collectFood(_, _)
\* collectFood: order is the order of the loop over w.Snakes
collectFood(w, order) ==
    IF order = <<>> THEN w
    ELSE LET sn == w.Snakes[order[1]]
             head == HeadOf(sn)
         IN IF ~sn.Alive THEN collectFood(w, Tail(order))
            ELSE collectFood(
                     Eat(w, sn.ID,
                         NearbyFood(w.Grid, head[1], head[2], SnakeHeadRadius + FoodRadius)),
                     Tail(order))

\* the moving food items the model follows
MovingIn(foodMap) == {id \in DOMAIN foodMap : foodMap[id].IsMoving}

\* maybeSpawnMovingFood: rnd.movingNear says whether the point drawn is near
\* the snakes followed, where the item is followed too
maybeSpawnMovingFood(w, ticks, rnd) ==
    IF ticks % MovingFoodSpawnInterval # 0 THEN w
    ELSE IF Cardinality(MovingIn(w.Food)) + w.movingElsewhere >= MovingFoodMaxCount THEN w
    ELSE IF rnd.movingNear
    THEN [w EXCEPT !.Food = MapSet(w.Food, w.foodCounter + 1,
                                   NewMovingFood(w.foodCounter + 1, rnd.foodR, rnd.foodA,
                                                 rnd.moveAngle, rnd.moveTicks)),
                   !.foodCounter = w.foodCounter + 1]
    ELSE [w EXCEPT !.movingElsewhere = w.movingElsewhere + 1,
                   !.foodCounter = w.foodCounter + 1]

\* MaintainFoodCount with the moving items counted against the budget
MaintainFoodCountAll(w, rnd) ==
    LET normalCount == Cardinality(DOMAIN w.Food) + w.foodElsewhere + w.movingElsewhere
        deficit == TargetFoodCount - normalCount
        spawn == Min(deficit, FoodSpawnPerTick)
        near == Min(spawn, rnd.near)
    IN IF deficit <= 0 THEN w
       ELSE [w EXCEPT !.Food = IF near = 1
                                THEN MapSet(w.Food, w.foodCounter + 1,
                                            NewFood(w.foodCounter + 1, rnd.foodR, rnd.foodA,
                                                    rnd.level3))
                                ELSE w.Food,
                      !.foodElsewhere = w.foodElsewhere + spawn - near,
                      !.foodCounter = w.foodCounter + spawn]

\* MaintainFoodCount: of the items spawned, rnd.near (0 or 1) fall near the
\* snakes followed, at the point rnd.foodR, rnd.foodA; the rest are counted
MaintainFoodCount(w, rnd) ==
    LET normalCount == Cardinality(DOMAIN w.Food \ MovingIn(w.Food)) + w.foodElsewhere
        deficit == TargetFoodCount - normalCount
        spawn == Min(deficit, FoodSpawnPerTick)
        near == Min(spawn, rnd.near)
    IN IF deficit <= 0 THEN w
       ELSE [w EXCEPT !.Food = IF near = 1
                                THEN MapSet(w.Food, w.foodCounter + 1,
                                            NewFood(w.foodCounter + 1, rnd.foodR, rnd.foodA,
                                                    rnd.level3))
                                ELSE w.Food,
                      !.foodElsewhere = w.foodElsewhere + spawn - near,
                      !.foodCounter = w.foodCounter + spawn]

RECURSIVE SortByScore(_, _)
\* sort.Slice by descending score: of equal scores the earlier in ids is first
SortByScore(snakes, ids) ==
    IF ids = <<>> THEN <<>>
    ELSE LET top == MinOf({i \in 1..Len(ids) :
                            \A j \in 1..Len(ids) : snakes[ids[j]].Score <= snakes[ids[i]].Score})
         IN <<ids[top]>>
            \o SortByScore(snakes, SubSeq(ids, 1, top - 1) \o SubSeq(ids, top + 1, Len(ids)))

\* Leaderboard with the dead snakes listed too
LeaderboardAll(w, order) ==
    LET sorted == SortByScore(w.Snakes, order)
        top == SubSeq(sorted, 1, Min(Len(sorted), LeaderboardSize))
    IN [i \in 1..Len(top) |->
          [ID |-> top[i], Name |-> w.Snakes[top[i]].Name, Score |-> w.Snakes[top[i]].Score]]

\* Leaderboard: order is the order of the loop over w.Snakes
Leaderboard(w, order) ==
    LET sorted == SortByScore(w.Snakes, AliveIn(w.Snakes, order))
        top == SubSeq(sorted, 1, Min(Len(sorted), LeaderboardSize))
    IN [i \in 1..Len(top) |->
          [ID |-> top[i], Name |-> w.Snakes[top[i]].Name, Score |-> w.Snakes[top[i]].Score]]

\* ToDTO, of which the model keeps the head and the number of segments
ToDTO(s) ==
    [ID |-> s.ID, Name |-> s.Name, Score |-> s.Score, Head |-> HeadOf(s),
     Len |-> Len(s.Segments), Boosting |-> IF s.BoostActive THEN 1 ELSE 0]

\* SnakesInViewport testing the head only
SnakesInViewportHead(w, cx, cy, order) ==
    LET halfW == ViewportWidth \div 2 + ViewportBuffer
        halfH == ViewportHeight \div 2 + ViewportBuffer
        Visible(id) ==
            /\ w.Snakes[id].Alive
            /\ HeadOf(w.Snakes[id])[1] >= cx - halfW /\ HeadOf(w.Snakes[id])[1] <= cx + halfW
            /\ HeadOf(w.Snakes[id])[2] >= cy - halfH /\ HeadOf(w.Snakes[id])[2] <= cy + halfH
        seen == SelectSeq(order, Visible)
    IN [i \in 1..Len(seen) |-> ToDTO(w.Snakes[seen[i]])]

\* SnakesInViewport: order is the order of the loop over w.Snakes
SnakesInViewport(w, cx, cy, order) ==
    LET halfW == ViewportWidth \div 2 + ViewportBuffer
        halfH == ViewportHeight \div 2 + ViewportBuffer
        Visible(id) ==
            /\ w.Snakes[id].Alive
            /\ \E i \in 1..Len(w.Snakes[id].Segments) :
                 LET seg == w.Snakes[id].Segments[i]
                 IN /\ seg[1] >= cx - halfW /\ seg[1] <= cx + halfW
                    /\ seg[2] >= cy - halfH /\ seg[2] <= cy + halfH
        seen == SelectSeq(order, Visible)
    IN [i \in 1..Len(seen) |-> ToDTO(w.Snakes[seen[i]])]

RECURSIVE Dedup(_, _)
\* the first occurrence of each id of a sequence (the map seen)
Dedup(ids, seen) ==
    IF ids = <<>> THEN <<>>
    ELSE IF ids[1] \in seen THEN Dedup(Tail(ids), seen)
    ELSE <<ids[1]>> \o Dedup(Tail(ids), seen \cup {ids[1]})

\* SpatialGrid.FoodInViewport: the food items the grid's cells over the
\* rectangle hold that are in the food map, as ids
GridFoodInViewport(g, foodMap, vx, vy, vw, vh) ==
    LET minCX == vx \div GridCellSize
        maxCX == (vx + vw) \div GridCellSize
        minCY == vy \div GridCellSize
        maxCY == (vy + vh) \div GridCellSize
        cells == CellRun(g, minCX, maxCX, <<minCY, maxCY>>)
        Listed(e) == e.foodID # NoFoodID /\ e.foodID \in DOMAIN foodMap
        hits == SelectSeq(cells, Listed)
    IN Dedup([i \in 1..Len(hits) |-> hits[i].foodID], {})

\* World.FoodInViewport
FoodInViewport(w, cx, cy) ==
    LET halfW == ViewportWidth \div 2 + ViewportBuffer
        halfH == ViewportHeight \div 2 + ViewportBuffer
    IN GridFoodInViewport(w.Grid, w.Food, cx - halfW, cy - halfH, halfW * 2, halfH * 2)

(***************************************************************************)
(* The locks.  World.mu is a sync.RWMutex: one writer or any number of     *)
(* readers; Conn.mu a sync.Mutex.  A goroutine is named "loop" (the game   *)
(* loop) or by the id of the connection whose ReadLoop it runs.            *)
(***************************************************************************)
\* World.mu with nobody holding it
Unlocked == [writer |-> "", readers |-> {}]

\* Lock that returns whoever holds the lock
CanLockAlways(m) == TRUE

\* Lock returns: nobody holds the lock
CanLock(m) == m.writer = "" /\ m.readers = {}

\* RLock returns: no writer holds the lock
CanRLock(m) == m.writer = ""

\* Conn.mu.Lock that returns whoever holds the mutex
ConnFreeAlways(held) == TRUE

\* Conn.mu.Lock returns: nobody holds the connection's mutex
ConnFree(held) == held = ""

\* the server is not running: the state of the unit specifications
ServerIdle ==
    /\ Food = <<>> /\ foodElsewhere = 0 /\ movingElsewhere = 0 /\ gridTick = 0
    /\ wmu = Unlocked /\ tickCount = 0 /\ killMap = <<>> /\ lpc = "off"
    /\ boundaryDeaths = {} /\ connList = <<>> /\ li = 0 /\ leaderboard = <<>>
    /\ toRespawn = <<>> /\ spawning = <<>> /\ bots = <<>> /\ botUsedNames = {}
    /\ botSeq = 0 /\ conns = {} /\ input = <<>> /\ cmu = <<>> /\ closed = <<>>
    /\ rpc = <<>> /\ msg = <<>> /\ msgsLeft = <<>> /\ payload = <<>> /\ sent = <<>>
    /\ tickFood = {} /\ diedWith = <<>> /\ crossed = <<>>
    /\ queries = {} /\ stored = <<>> /\ applied = <<>>

(***************************************************************************)
(* SpecSnake: the operations of one Snake, applied in any order to a       *)
(* snake the program can hold: a new one, one that has boosted down to a   *)
(* few segments, one that has eaten up to nearly the widest width.         *)
(***************************************************************************)
\* one tick of boosting straight ahead (ApplyInput then Move, as a tick does)
BoostOnce(s) == Move(ApplyInput(s, s.Angle, TRUE, FALSE, 0).snake).snake

RECURSIVE BoostTimes(_, _)
\* k ticks of boosting; the test on h.Alive makes TLC evaluate the first half
\* before the second, which keeps the evaluation shallow
BoostTimes(s, k) ==
    IF k = 0 THEN s
    ELSE IF k = 1 THEN BoostOnce(s)
    ELSE LET h == BoostTimes(s, k \div 2)
         IN IF h.Alive THEN BoostTimes(h, k - (k \div 2)) ELSE h

RECURSIVE GrowTimes(_, _)
\* k meals of a level-10 food
GrowTimes(s, k) ==
    IF k = 0 THEN s
    ELSE IF k = 1 THEN Grow(s, FoodLevel10)
    ELSE LET h == GrowTimes(s, k \div 2)
         IN IF h.Alive THEN GrowTimes(h, k - (k \div 2)) ELSE h

\* the draws NewSnake may make: <<r, spawnAngle, angle>>
SpawnDraws == {<<0, 0, 0>>, <<10000, 0, 4000>>, <<0, 0, 3000>>}
\* ticks of boosting before the run starts
PreBoosts == {0, 20, 23}
\* meals before the run starts
PreGrows == {0, 138}
\* the angles an input may ask for (milliradians)
InputAngles == {0, 3142, -3000}
\* Food.Value of the food a snake may eat
FoodValues == {FoodLevel1, FoodLevel3, FoodLevel5, FoodLevel10}
\* the scatter NewFoodAt may draw, <<jx, jy>>
Scatters == {<<0, 0>>, <<20, -20>>}

\* the snakes a run starts from: new and boosted-down ones for every draw,
\* and one that has eaten up to nearly the widest width
StartSnakes ==
    {BoostTimes(NewSnake("s1", "n1", d[1], d[2], d[3]), b) :
        d \in SpawnDraws, b \in PreBoosts}
    \cup {GrowTimes(NewSnake("s1", "n1", 0, 0, 0), g) : g \in PreGrows}

\* no collision pass is under way
CollideIdle ==
    /\ Snakes = <<>>
    /\ Grid = <<>>
    /\ deaths = <<>>
    /\ aliveSnakes = <<>>
    /\ cpc = "idle"
    /\ ci = 0
    /\ cj = 0

\* history: the run of boost inputs a snake is in.  len and score are the
\* segments and the score it had as the run began, food the items emitted in
\* it, whole whether nothing but inputs and moves came since.  A start snake
\* that has boosted did so from a new snake on.
StreakAt(s) ==
    IF s.BoostTicks > 0
    THEN [len |-> SnakeInitSegments, score |-> SnakeInitSegments, food |-> 0, whole |-> TRUE]
    ELSE [len |-> Len(s.Segments), score |-> s.Score, food |-> 0, whole |-> TRUE]

InitSnake ==
    /\ snake \in StartSnakes
    /\ dropped = <<>>
    /\ lastOp = [op |-> "NewSnake", outOfBounds |-> FALSE, streak |-> StreakAt(snake)]
    /\ steps = 0
    /\ foodCounter = 0
    /\ CollideIdle
    /\ ServerIdle

SnakeApplyInput ==
    /\ snake.Alive /\ steps < MaxSteps
    /\ \E angle \in InputAngles, boost \in BOOLEAN, dropFood \in BOOLEAN :
         LET r == ApplyInput(snake, angle, boost, dropFood, foodCounter + 1)
         IN /\ snake' = r.snake
            /\ dropped' = r.food
            /\ foodCounter' = foodCounter + Len(r.food)
            /\ lastOp' = [op |-> "ApplyInput", outOfBounds |-> FALSE, angle |-> angle,
                          was |-> snake,
                          streak |-> IF ~boost THEN StreakAt(r.snake)
                                     ELSE IF snake.BoostTicks = 0 THEN StreakAt(snake)
                                     ELSE [lastOp.streak EXCEPT
                                              !.food = @ + Len(r.food)]]
    /\ steps' = steps + 1
    /\ UNCHANGED <<collideVars, serverVars>>

SnakeMove ==
    /\ snake.Alive /\ steps < MaxSteps
    /\ LET r == Move(snake)
       IN /\ snake' = r.snake
          /\ lastOp' = [op |-> "Move", outOfBounds |-> r.outOfBounds,
                        streak |-> lastOp.streak]
    /\ dropped' = <<>>
    /\ steps' = steps + 1
    /\ UNCHANGED <<collideVars, serverVars>>
    /\ UNCHANGED foodCounter

SnakeGrow ==
    /\ snake.Alive /\ steps < MaxSteps
    /\ \E amount \in FoodValues :
         /\ Len(snake.Segments) + amount <= MaxSegs
         /\ snake' = Grow(snake, amount)
    /\ lastOp' = [op |-> "Grow", outOfBounds |-> FALSE,
                  streak |-> [lastOp.streak EXCEPT !.whole = FALSE]]
    /\ dropped' = <<>>
    /\ steps' = steps + 1
    /\ UNCHANGED <<collideVars, serverVars>>
    /\ UNCHANGED foodCounter

SnakeDropFood ==
    /\ snake.Alive /\ steps < MaxSteps
    /\ \E j \in Scatters :
         LET r == DropFood(snake, foodCounter + 1, j[1], j[2])
         IN /\ snake' = r.snake
            /\ dropped' = r.food
            /\ foodCounter' = foodCounter + Len(r.food)
    /\ lastOp' = [op |-> "DropFood", outOfBounds |-> FALSE,
                  streak |-> [lastOp.streak EXCEPT !.whole = FALSE]]
    /\ steps' = steps + 1
    /\ UNCHANGED <<collideVars, serverVars>>

NextSnake == SnakeApplyInput \/ SnakeMove \/ SnakeGrow \/ SnakeDropFood

SpecSnake == InitSnake /\ [][NextSnake]_vars


(***************************************************************************)
(* SpecCollide: one call of detectCollisions, a loop iteration at a time,  *)
(* over a world of three snakes whose grid RebuildGrid has just built.     *)
(***************************************************************************)
CollideIds == {"a", "b", "c"}

\* where the three snakes were spawned, <<r, spawnAngle, angle>>: at the
\* centre heading east; head 15 east of the centre heading west; head 16 west
\* of the centre (on the first one's body) heading east; head 17 from the
\* centre on the y axis heading towards it
CollideDraws ==
    {<<0, 0, 0>>, <<15, 0, PI>>, <<16, PI, 0>>, <<17, PI \div 2, (3 * PI) \div 2>>}

\* meals eaten since the spawn
CollideMeals == {0, 1}

\* a snake of the collision world
CollideSnake(id, name, d, meals, alive) ==
    [GrowTimes(NewSnake(id, name, d[1], d[2], d[3]), meals) EXCEPT !.Alive = alive]

\* no single-snake run is under way
SnakeIdle ==
    /\ snake = <<>>
    /\ dropped = <<>>
    /\ lastOp = [op |-> "none", outOfBounds |-> FALSE]
    /\ steps = 0
    /\ foodCounter = 0

InitCollide ==
    /\ SnakeIdle
    /\ ServerIdle
    /\ \E da, db, dc \in CollideDraws, mb, mc \in CollideMeals, alive \in BOOLEAN :
         Snakes = [id \in CollideIds |->
                     IF id = "a" THEN CollideSnake("a", "A", da, 0, TRUE)
                     ELSE IF id = "b" THEN CollideSnake("b", "B", db, mb, TRUE)
                     ELSE CollideSnake("c", "C", dc, mc, alive)]
    /\ \E order \in Orders(CollideIds) : Grid = RebuildGrid(<<>>, Snakes, <<>>, order)
    /\ deaths = NoDeaths
    /\ aliveSnakes = <<>>
    /\ cpc = "collect"
    /\ ci = 0
    /\ cj = 0

\* lines 224-232: the loop over w.Snakes that collects the live ones
CollideCollect ==
    /\ cpc = "collect"
    /\ \E order \in Orders(DOMAIN Snakes) : aliveSnakes' = AliveIn(Snakes, order)
    /\ deaths' = NoDeaths
    /\ cpc' = IF Len(aliveSnakes') = 0 THEN "done" ELSE "body"
    /\ ci' = 1
    /\ cj' = 2
    /\ UNCHANGED <<Snakes, Grid, snakeVars, serverVars>>

\* lines 234-257: one iteration of the head-to-body loop
CollideBody ==
    /\ cpc = "body"
    /\ deaths' = HeadBodyStep(deaths, Snakes, Grid, aliveSnakes[ci])
    /\ IF ci < Len(aliveSnakes)
       THEN /\ ci' = ci + 1
            /\ UNCHANGED cpc
       ELSE /\ ci' = 1
            /\ cpc' = IF Len(aliveSnakes) >= 2 THEN "pairs" ELSE "done"
    /\ UNCHANGED <<Snakes, Grid, aliveSnakes, cj, snakeVars, serverVars>>

\* lines 260-285: one iteration of the inner head-to-head loop
CollidePair ==
    /\ cpc = "pairs"
    /\ deaths' = HeadHeadStep(deaths, Snakes, aliveSnakes[ci], aliveSnakes[cj])
    /\ IF cj < Len(aliveSnakes)
       THEN /\ cj' = cj + 1
            /\ UNCHANGED <<ci, cpc>>
       ELSE IF ci + 1 < Len(aliveSnakes)
       THEN /\ ci' = ci + 1
            /\ cj' = ci + 2
            /\ UNCHANGED cpc
       ELSE /\ cpc' = "done"
            /\ UNCHANGED <<ci, cj>>
    /\ UNCHANGED <<Snakes, Grid, aliveSnakes, snakeVars, serverVars>>

NextCollide == CollideCollect \/ CollideBody \/ CollidePair

SpecCollide == InitCollide /\ [][NextCollide]_vars

(***************************************************************************)
(* Spec: the running server.  The game loop goroutine runs tick after      *)
(* tick (server/game_loop.go); one goroutine per connection runs the       *)
(* WebSocket handler and its ReadLoop (server/main.go, unnamed/part_001).  *)
(* A step is one critical section or one blocking call of a goroutine.     *)
(* A loop over a Go map takes one order, chosen anew at each step.         *)
(***************************************************************************)
\* the connections of a run
ConnIds == {"p1", "p2"}

\* the name each client gives in its join messages
NameOf(c) == IF c = "p1" THEN "ann" ELSE "bob"

\* the ids SpawnBot gives the bots of a run, in order (fresh random numbers)
BotIds == <<"b1", "b2">>

\* the names of botNames the bots followed may take
BotNames == {"Viper", "Cobra"}

\* the random draws of one step.  wander: randomWanderDuration; roamR, roamA,
\* roamTicks: the roam target; turn, breakTicks: the forced new direction;
\* moveAngle, moveTicks: a moving food's new direction; dropFood: ApplyInput's
\* "rand.Float64() < 0.5"; jx, jy: NewFoodAt's scatter; foodR, foodA, level3:
\* the point and level of a food spawned; near, movingNear: as explained at
\* MaintainFoodCount and maybeSpawnMovingFood
Draws ==
    {[wander |-> 60, roamR |-> 0, roamA |-> 0, roamTicks |-> 60, turn |-> 0,
      breakTicks |-> 30, moveAngle |-> 0, moveTicks |-> 60, dropFood |-> d, jx |-> 0,
      jy |-> 0, movingNear |-> FALSE, foodR |-> 40, foodA |-> 0, near |-> n,
      level3 |-> FALSE] : d \in BOOLEAN, n \in {0, 1}}

\* the orders of a loop over w.Snakes the model follows, of all those Go may
\* take: the ids in the order of IdRank, and in the opposite order
IdRank == <<"b1", "b2", "p1", "p2">>
LoopOrders(keys) ==
    LET up == SelectSeq(IdRank, LAMBDA id : id \in keys)
    IN {up, [i \in 1..Len(up) |-> up[Len(up) + 1 - i]]}

\* the draws of NewSnake for a player joining and for a bot spawned
JoinDraws == {<<0, 0, 0>>}
BotDraws == {<<16, PI, 0>>}

\* the inputs a client may send
Inputs == {[Angle |-> 0, Boost |-> TRUE], [Angle |-> PI \div 2, Boost |-> FALSE]}

\* PlayerInput's zero value
NoInput == [Angle |-> 0, Boost |-> FALSE]

\* GameLoop.tickCount at the start of a run that starts from a running
\* server: the tick before one in which maybeSpawnMovingFood acts
RunningSince == MovingFoodSpawnInterval - 1

\* ticks the player of PlayerAtEdge has boosted outwards: to the boundary
EdgeTicks == SpawnMargin \div SnakeBoostSpeed

\* the bots of the program that the model does not follow
BotsElsewhere == BotCount - 1

\* one tick of a bot inside the boundary buffer (decideBotInput's priority 1,
\* then ApplyInput and Move as Update calls them)
SteerHome(s) ==
    LET head == HeadOf(s)
        ta == Atan2(WorldCenterY - head[2], WorldCenterX - head[1])
    IN Move(ApplyInput(s, ta, FALSE, FALSE, 0).snake).snake

RECURSIVE SteerTimes(_, _)
\* k such ticks (evaluated in halves, as BoostTimes)
SteerTimes(s, k) ==
    IF k = 0 THEN s
    ELSE IF k = 1 THEN SteerHome(s)
    ELSE LET h == SteerTimes(s, k \div 2)
         IN IF h.Alive THEN SteerTimes(h, k - (k \div 2)) ELSE h

\* a player who spawned on the spawn circle heading outwards and has boosted
\* straight on since: one more tick takes the head across the boundary
PlayerAtEdge ==
    BoostTimes(NewSnake("p1", NameOf("p1"), WorldRadius - SpawnMargin, 0, 0), EdgeTicks)

\* a bot that has eaten GiantMeals level-10 items, spawned on the spawn circle
\* heading outwards: so long that, steering home at its turn rate for
\* GiantTicks ticks, it has not turned back before the boundary
GiantBot ==
    SteerTimes(GrowTimes(NewSnake("b1", "Viper", WorldRadius - SpawnMargin, 0, 0),
                         GiantMeals), GiantTicks)

\* the bot followed as NewBotManager's SpawnBot made it
FreshBot == NewSnake("b1", "Viper", 16, PI, 0)

\* the food followed in every start: two level-1 items near the centre
StartFood ==
    (InitialFoodCount - 1 :> newFoodWithLevel(InitialFoodCount - 1, WorldCenterX + 12,
                                              WorldCenterY, FoodLevel1, FALSE))
    @@ (InitialFoodCount :> newFoodWithLevel(InitialFoodCount, WorldCenterX + 100,
                                             WorldCenterY + 50, FoodLevel1, FALSE))

\* the worlds a run starts from.  "first": the server as constructed, before
\* its first tick.  "respawn": a running server whose bot followed died 99
\* ticks ago.  "edge": a running server with a player about to cross the
\* boundary.  "giant": a running server with the giant bot about to cross.
\* joined: the connections in the game; gone: those that have come and gone;
\* msgs: the messages each client sends in the run, at most
StartWorlds ==
    {[kind |-> "first", Snakes |-> ("b1" :> FreshBot),
      bots |-> ("b1" :> NewBot("b1", FreshBot.Angle, 60)),
      joined |-> {}, gone |-> {}, msgs |-> ("p1" :> MaxMsgs) @@ ("p2" :> 0), tick |-> 0],
     [kind |-> "respawn", Snakes |-> ("b1" :> DropFood(FreshBot, 0, 0, 0).snake),
      bots |-> ("b1" :> [NewBot("b1", FreshBot.Angle, 60) EXCEPT !.respawnIn = 1]),
      joined |-> {}, gone |-> {"p2"}, msgs |-> ("p1" :> 1) @@ ("p2" :> 0),
      tick |-> RunningSince],
     [kind |-> "edge", Snakes |-> ("b1" :> FreshBot) @@ ("p1" :> PlayerAtEdge),
      bots |-> ("b1" :> NewBot("b1", FreshBot.Angle, 60)),
      joined |-> {"p1"}, gone |-> {"p2"}, msgs |-> ("p1" :> MaxMsgs) @@ ("p2" :> 0),
      tick |-> RunningSince],
     [kind |-> "giant", Snakes |-> ("b1" :> GiantBot),
      bots |-> ("b1" :> NewBot("b1", GiantBot.Angle, 60)),
      joined |-> {}, gone |-> ConnIds, msgs |-> ("p1" :> 0) @@ ("p2" :> 0),
      tick |-> RunningSince]}

\* no message built yet
NoPayload ==
    [to |-> "", kind |-> "none", tick |-> 0, live |-> FALSE, snakes |-> <<>>,
     food |-> <<>>, inView |-> {}, leaderboard |-> <<>>, killer |-> "", score |-> 0]

\* the unit specifications are not running
UnitIdle ==
    /\ snake = <<>> /\ dropped = <<>> /\ steps = 0
    /\ lastOp = [op |-> "none", outOfBounds |-> FALSE]
    /\ aliveSnakes = <<>> /\ cpc = "idle" /\ ci = 0 /\ cj = 0

\* the server starts from one of the worlds given
InitFrom(worlds) ==
    /\ UnitIdle
    /\ \E sw \in worlds :
         /\ Snakes = sw.Snakes
         /\ bots = sw.bots
         /\ conns = sw.joined
         /\ rpc = [c \in ConnIds |-> IF c \in sw.joined THEN "read"
                                      ELSE IF c \in sw.gone THEN "gone" ELSE "off"]
         /\ closed = [c \in ConnIds |-> c \in sw.gone]
         /\ input = [c \in ConnIds |-> IF c \in sw.joined
                                        THEN [Angle |-> 0, Boost |-> TRUE] ELSE NoInput]
         /\ msgsLeft = sw.msgs
         /\ tickCount = sw.tick
         /\ gridTick = sw.tick
         /\ Grid = IF sw.kind = "first" THEN EmptyGrid
                   ELSE RebuildGrid(StartFood, sw.Snakes, FoodOrder(StartFood),
                                    CHOOSE o \in Orders(DOMAIN sw.Snakes) : TRUE)
    /\ stored = [c \in ConnIds |-> [msg |-> input[c], seq |-> 0, bad |-> 0, badAt |-> 0]]
    /\ applied = [c \in ConnIds |-> [inp |-> input[c], from |-> stored[c], tick |-> 0,
                                      count |-> 0]]
    /\ crossed = <<>>
    /\ cmu = [c \in ConnIds |-> ""]
    /\ msg = [c \in ConnIds |-> NoInput]
    /\ sent = [c \in ConnIds |-> "none"]
    /\ Food = StartFood
    /\ foodElsewhere = TargetFoodCount - Cardinality(DOMAIN StartFood)
    /\ movingElsewhere = 0
    /\ foodCounter = InitialFoodCount
    /\ wmu = Unlocked
    /\ killMap = <<>>
    /\ deaths = NoDeaths
    /\ lpc = "idle"
    /\ boundaryDeaths = {}
    /\ connList = <<>>
    /\ li = 0
    /\ leaderboard = <<>>
    /\ toRespawn = <<>>
    /\ spawning = <<>>
    /\ botUsedNames = {"Viper"}
    /\ botSeq = 1
    /\ payload = NoPayload
    /\ tickFood = DOMAIN StartFood
    /\ diedWith = <<>>
    /\ queries = {}

Init == InitFrom(StartWorlds)

\* the world as the World struct holds it
WorldNow ==
    [Snakes |-> Snakes, Food |-> Food, Grid |-> Grid, foodCounter |-> foodCounter,
     foodElsewhere |-> foodElsewhere, movingElsewhere |-> movingElsewhere]

\* the World struct becomes w
WorldBecomes(w) ==
    /\ Snakes' = w.Snakes
    /\ Food' = w.Food
    /\ Grid' = w.Grid
    /\ foodCounter' = w.foodCounter
    /\ foodElsewhere' = w.foodElsewhere
    /\ movingElsewhere' = w.movingElsewhere

worldVars == <<Snakes, Food, Grid, foodCounter, foodElsewhere, movingElsewhere>>
loopLocals == <<boundaryDeaths, connList, li, leaderboard, toRespawn, spawning, deaths>>
botVars == <<bots, botUsedNames, botSeq>>
connVars == <<conns, input, cmu, closed, rpc, msg, msgsLeft>>
histVars == <<tickFood, diedWith, sent, queries, stored, applied, crossed>>

\* the loop runs another tick (the bound of a run)
Ticking ==
    \/ tickCount < MaxTicks
    \/ tickCount >= RunningSince /\ tickCount < RunningSince + MaxTicks

\* history: a grid query of this tick, with the tick the grid it reads was
\* built in
Query(by, kind, builtIn) ==
    [by |-> by, kind |-> kind, tick |-> tickCount, gridTick |-> builtIn]

\* tick, lines 48-50: count the tick and take the world's lock
TickBegin ==
    /\ lpc = "idle"
    /\ Ticking
    /\ CanLock(wmu)
    /\ tickCount' = tickCount + 1
    /\ wmu' = [wmu EXCEPT !.writer = "loop"]
    /\ lpc' = "bots"
    /\ UNCHANGED <<unitVars, worldVars, gridTick, killMap, loopLocals, botVars, connVars,
                   payload, histVars>>

\* history: the bots whose Move in this Update took the head out of bounds
\* (alive before Update, dead in w, the world after it)
BotsCrossing(w) ==
    {id \in DOMAIN bots : id \in DOMAIN Snakes /\ Snakes[id].Alive /\ ~w.Snakes[id].Alive}

\* tick, lines 53-66: moving food, the bots' decisions and moves, the dead
\* bots collected, the snapshot of the connections
TickBots ==
    /\ lpc = "bots"
    /\ \E rnd \in Draws, order \in LoopOrders(DOMAIN Snakes), botOrder \in Orders(DOMAIN bots),
          list \in Orders(conns) :
         \E r \in {BotsUpdate(updateMovingFood(WorldNow, rnd), bots, botOrder, order, rnd)} :
            /\ WorldBecomes(r.w)
            /\ bots' = r.bots
            /\ boundaryDeaths' = DeadBots(r.w, r.bots)
            /\ crossed' = [id \in DOMAIN crossed \cup BotsCrossing(r.w) |->
                              IF id \in BotsCrossing(r.w) THEN tickCount ELSE crossed[id]]
            /\ queries' = queries \cup
                  {Query(q.by, q.kind, gridTick) : q \in r.asked}
            /\ connList' = list
            /\ li' = 1
            /\ lpc' = IF list = <<>> THEN "resolve" ELSE "players"
    /\ UNCHANGED <<unitVars, gridTick, wmu, tickCount, killMap, leaderboard, toRespawn,
                   spawning, deaths, botUsedNames, botSeq, connVars, payload, tickFood,
                   diedWith,
                   sent, stored, applied>>

\* history: GetInput has returned inp to the tick for connection c
Applied(c, inp) ==
    [applied EXCEPT ![c] = [inp |-> inp, from |-> stored[c], tick |-> tickCount,
                            count |-> IF applied[c].tick = tickCount
                                      THEN applied[c].count + 1 ELSE 1]]

\* tick, lines 67-80, for one connection of the snapshot
TickPlayer ==
    /\ lpc = "players"
    /\ LET c == connList[li]
       IN IF c \in DOMAIN Snakes /\ Snakes[c].Alive
          THEN /\ ConnFree(cmu[c])
               /\ \E rnd \in Draws :
                    LET r == PlayerStep(WorldNow, c, input[c], rnd)
                    IN /\ WorldBecomes(r.w)
                       /\ boundaryDeaths' = IF r.outOfBounds THEN boundaryDeaths \cup {c}
                                            ELSE boundaryDeaths
                       /\ crossed' = IF r.outOfBounds THEN MapSet(crossed, c, tickCount)
                                     ELSE crossed
               /\ applied' = Applied(c, input[c])
          ELSE UNCHANGED <<worldVars, boundaryDeaths, applied, crossed>>
    /\ li' = li + 1
    /\ lpc' = IF li = Len(connList) THEN "resolve" ELSE "players"
    /\ UNCHANGED <<unitVars, gridTick, wmu, tickCount, killMap, connList, leaderboard,
                   toRespawn, spawning, deaths, botVars, connVars, payload, tickFood,
                   diedWith, sent,
                   queries, stored>>

\* the members of a loop order that are keys of the map m, in that order
KeysIn(order, m) == SelectSeq(order, LAMBDA id : id \in DOMAIN m)

\* tick, lines 83-119: the grid rebuilt, collisions, deaths, magnet, food
\* eaten, food spawned, the leaderboard, and the lock released
TickResolve ==
    /\ lpc = "resolve"
    /\ \E rnd \in Draws, order \in LoopOrders(DOMAIN Snakes), botOrder \in Orders(DOMAIN bots) :
         LET w1 == [WorldNow EXCEPT
                       !.Grid = RebuildGrid(Food, Snakes, FoodOrder(Food), order)]
             dm == MergeBoundary(detectCollisions(w1.Snakes, w1.Grid, order),
                                 boundaryDeaths)
             victims == KeysIn(order, dm)
             pd == ProcessDeaths([w |-> w1, killMap |-> <<>>], dm, victims, rnd)
             w2 == collectFood(applyFoodMagnet(pd.w, order), order)
             w3 == MaintainFoodCount(maybeSpawnMovingFood(w2, tickCount, rnd), rnd)
         IN /\ WorldBecomes(w3)
            /\ deaths' = dm
            /\ killMap' = pd.killMap
            /\ bots' = HandleDeaths(bots, pd.w, dm, victims, botOrder)
            /\ leaderboard' = Leaderboard(w3, order)
            /\ tickFood' = DOMAIN w3.Food
            /\ diedWith' = [v \in DOMAIN pd.killMap |-> w1.Snakes[v].Score]
            /\ queries' = queries \cup
                  IF AliveIn(Snakes, order) = <<>> THEN {}
                  ELSE {Query("loop", k, tickCount) :
                           k \in {"collision", "magnet", "consumption"}}
    /\ gridTick' = tickCount
    /\ wmu' = Unlocked
    /\ lpc' = "respawns"
    /\ UNCHANGED <<unitVars, tickCount, boundaryDeaths, connList, li, toRespawn, spawning,
                   botUsedNames, botSeq, connVars, payload, sent, stored, applied, crossed>>

\* MaintainBotCount, line 389: the test after tickRespawns
AfterRespawns ==
    IF Cardinality(DOMAIN bots) + BotsElsewhere < BotCount THEN "spawn_last"
    ELSE "broadcast"

\* tickRespawns, lines 359-368: the counters tick down
TickRespawns ==
    /\ lpc = "respawns"
    /\ \E botOrder \in Orders(DOMAIN bots) :
         /\ bots' = [id \in DOMAIN bots |->
                       IF bots[id].respawnIn <= 0 THEN bots[id]
                       ELSE [bots[id] EXCEPT !.respawnIn = bots[id].respawnIn - 1]]
         /\ toRespawn' = SelectSeq(botOrder, LAMBDA id : bots[id].respawnIn = 1)
    /\ lpc' = IF toRespawn' # <<>> THEN "respawn_lock" ELSE AfterRespawns
    /\ UNCHANGED <<unitVars, worldVars, gridTick, wmu, tickCount, killMap, boundaryDeaths,
                   connList, li, leaderboard, spawning, deaths, botUsedNames, botSeq,
                   connVars, payload, histVars>>

\* tickRespawns, line 371: the lock taken for one bot to respawn
RespawnLock ==
    /\ lpc = "respawn_lock"
    /\ CanLock(wmu)
    /\ wmu' = [wmu EXCEPT !.writer = "loop"]
    /\ lpc' = "respawn_delete"
    /\ UNCHANGED <<unitVars, worldVars, gridTick, tickCount, killMap, loopLocals, botVars,
                   connVars, payload, histVars>>

\* tickRespawns, lines 372-377: the dead snake and its bot deleted
RespawnDelete ==
    /\ lpc = "respawn_delete"
    /\ LET oldID == toRespawn[1]
       IN /\ botUsedNames' = IF oldID \in DOMAIN Snakes
                             THEN botUsedNames \ {Snakes[oldID].Name} ELSE botUsedNames
          /\ Snakes' = MapDelete(Snakes, oldID)
          /\ bots' = MapDelete(bots, oldID)
    /\ crossed' = MapDelete(crossed, toRespawn[1])
    /\ toRespawn' = Tail(toRespawn)
    /\ wmu' = Unlocked
    /\ lpc' = "spawn"
    /\ UNCHANGED <<unitVars, Food, Grid, foodCounter, foodElsewhere, movingElsewhere,
                   gridTick, tickCount, killMap, boundaryDeaths, connList, li, leaderboard,
                   spawning, deaths, botSeq, connVars, payload, tickFood, diedWith, sent, queries,
                   stored, applied>>

\* SpawnBot, lines 87-94: the id, the name and the snake made, the lock taken
SpawnLock ==
    /\ lpc \in {"spawn", "spawn_last"}
    /\ botSeq < Len(BotIds)
    /\ CanLock(wmu)
    /\ \E name \in BotNames \ botUsedNames, d \in BotDraws :
         /\ spawning' = NewSnake(BotIds[botSeq + 1], name, d[1], d[2], d[3])
         /\ botUsedNames' = botUsedNames \cup {name}
    /\ botSeq' = botSeq + 1
    /\ wmu' = [wmu EXCEPT !.writer = "loop"]
    /\ lpc' = IF lpc = "spawn" THEN "spawn_add" ELSE "spawn_last_add"
    /\ UNCHANGED <<unitVars, worldVars, gridTick, tickCount, killMap, boundaryDeaths,
                   connList, li, leaderboard, toRespawn, deaths, bots, connVars, payload,
                   histVars>>

\* SpawnBot, lines 95-102: the snake added, the lock released, the bot made
SpawnAdd ==
    /\ lpc \in {"spawn_add", "spawn_last_add"}
    /\ \E rnd \in Draws :
         bots' = MapSet(bots, spawning.ID, NewBot(spawning.ID, spawning.Angle, rnd.wander))
    /\ Snakes' = MapSet(Snakes, spawning.ID, spawning)
    /\ spawning' = <<>>
    /\ wmu' = Unlocked
    /\ lpc' = IF lpc = "spawn_last_add" THEN "broadcast"
              ELSE IF toRespawn # <<>> THEN "respawn_lock"
              ELSE IF Cardinality(DOMAIN bots') + BotsElsewhere < BotCount THEN "spawn_last"
              ELSE "broadcast"
    /\ UNCHANGED <<unitVars, Food, Grid, foodCounter, foodElsewhere, movingElsewhere,
                   gridTick, tickCount, killMap, boundaryDeaths, connList, li, leaderboard,
                   toRespawn, deaths, botUsedNames, botSeq, connVars, payload, histVars>>

\* the cells FoodInViewport's rectangle around <<cx, cy>> covers hold the key k
InViewCells(k, cx, cy) ==
    LET halfW == ViewportWidth \div 2 + ViewportBuffer
        halfH == ViewportHeight \div 2 + ViewportBuffer
    IN /\ k[1] >= (cx - halfW) \div GridCellSize /\ k[1] <= (cx + halfW) \div GridCellSize
       /\ k[2] >= (cy - halfH) \div GridCellSize /\ k[2] <= (cy + halfH) \div GridCellSize

\* broadcast, line 314: the snapshot of the connections
BroadcastStart ==
    /\ lpc = "broadcast"
    /\ \E list \in Orders(conns) :
         /\ connList' = list
         /\ lpc' = IF list = <<>> THEN "notices" ELSE "bc_rlock"
    /\ li' = 1
    /\ UNCHANGED <<unitVars, worldVars, gridTick, wmu, tickCount, killMap, boundaryDeaths,
                   leaderboard, toRespawn, spawning, deaths, botVars, connVars, payload,
                   histVars>>

\* broadcast, line 317: the shared lock taken for one connection
BcastRLock ==
    /\ lpc = "bc_rlock"
    /\ CanRLock(wmu)
    /\ wmu' = [wmu EXCEPT !.readers = @ \cup {"loop"}]
    /\ lpc' = "bc_build"
    /\ UNCHANGED <<unitVars, worldVars, gridTick, tickCount, killMap, loopLocals, botVars,
                   connVars, payload, histVars>>

\* broadcast, lines 318-344: the message for one connection built and the
\* shared lock released.  inView is history: the food of the world in the
\* cells of the viewport as the message is built
\* broadcast, lines 318-341: the state message for connection c, the loop of
\* SnakesInViewport taking the order given
StateMsgFor(c, order) ==
    IF c \in DOMAIN Snakes /\ Snakes[c].Alive
    THEN LET head == HeadOf(Snakes[c])
         IN [NoPayload EXCEPT
                !.to = c, !.kind = "state", !.tick = tickCount, !.live = TRUE,
                !.snakes = SnakesInViewport(WorldNow, head[1], head[2], order),
                !.food = FoodInViewport(WorldNow, head[1], head[2]),
                !.inView = {id \in DOMAIN Food :
                              InViewCells(keyFor(Food[id].X, Food[id].Y),
                                          head[1], head[2])},
                !.leaderboard = leaderboard]
    ELSE [NoPayload EXCEPT !.to = c, !.kind = "state", !.tick = tickCount,
                           !.leaderboard = leaderboard]

\* broadcast with the shared lock kept over the send
BcastBuildKeepsLock ==
    /\ lpc = "bc_build"
    /\ \E order \in LoopOrders(DOMAIN Snakes) : payload' = StateMsgFor(connList[li], order)
    /\ lpc' = "bc_send"
    /\ UNCHANGED <<unitVars, worldVars, gridTick, wmu, tickCount, killMap, loopLocals,
                   botVars, connVars, histVars>>

BcastBuild ==
    /\ lpc = "bc_build"
    /\ \E order \in LoopOrders(DOMAIN Snakes) : payload' = StateMsgFor(connList[li], order)
    /\ wmu' = [wmu EXCEPT !.readers = @ \ {"loop"}]
    /\ lpc' = "bc_send"
    /\ UNCHANGED <<unitVars, worldVars, gridTick, tickCount, killMap, loopLocals, botVars,
                   connVars, histVars>>

\* where the loop goes after the send to connList[li]
AfterSend ==
    IF lpc \in {"bc_send", "bc_blocked"}
    THEN (IF li = Len(connList) THEN "notices" ELSE "bc_rlock")
    ELSE (IF li = Len(connList) THEN "idle" ELSE "dn_get")

\* history: the message of payload written to its connection's socket
Written == [sent EXCEPT ![payload.to] = payload.kind]

\* Send has returned: the message is dropped and the loop goes on
SendReturns ==
    /\ payload' = NoPayload
    /\ lpc' = AfterSend
    /\ IF AfterSend = "idle" THEN connList' = <<>> /\ li' = 0
       ELSE li' = li + 1 /\ UNCHANGED connList

\* Conn.Send called by the loop: on a closed connection it returns at once;
\* else WriteMessage returns nil, returns an error, or blocks (the call has
\* no write deadline) with the connection's mutex held
LoopSend ==
    /\ lpc \in {"bc_send", "dn_send"}
    /\ ConnFree(cmu[payload.to])
    /\ \/ /\ closed[payload.to]
          /\ SendReturns
          /\ UNCHANGED <<sent, cmu>>
       \/ /\ ~closed[payload.to]
          /\ \E written \in BOOLEAN : sent' = IF written THEN Written ELSE sent
          /\ SendReturns
          /\ UNCHANGED cmu
       \/ /\ ~closed[payload.to]
          /\ cmu' = [cmu EXCEPT ![payload.to] = "loop"]
          /\ lpc' = IF lpc = "bc_send" THEN "bc_blocked" ELSE "dn_blocked"
          /\ UNCHANGED <<sent, li, connList, payload>>
    /\ UNCHANGED <<unitVars, worldVars, gridTick, wmu, tickCount, killMap, boundaryDeaths,
                   leaderboard, toRespawn, spawning, deaths, botVars, conns, input, closed,
                   rpc, msg, msgsLeft, tickFood, diedWith, queries, stored, applied, crossed>>

\* the peer of a blocked WriteMessage reads again, or its connection breaks:
\* the call returns and Send releases the mutex
PeerDrains ==
    /\ lpc \in {"bc_blocked", "dn_blocked"}
    /\ \E written \in BOOLEAN : sent' = IF written THEN Written ELSE sent
    /\ cmu' = [cmu EXCEPT ![payload.to] = ""]
    /\ SendReturns
    /\ UNCHANGED <<unitVars, worldVars, gridTick, wmu, tickCount, killMap, boundaryDeaths,
                   leaderboard, toRespawn, spawning, deaths, botVars, conns, input, closed,
                   rpc, msg, msgsLeft, tickFood, diedWith, queries, stored, applied, crossed>>

\* tick, line 132: the loop over killMap starts
NoticeStart ==
    /\ lpc = "notices"
    /\ \E list \in Orders(DOMAIN killMap) :
         /\ connList' = list
         /\ lpc' = IF list = <<>> THEN "idle" ELSE "dn_get"
         /\ li' = IF list = <<>> THEN 0 ELSE 1
    /\ UNCHANGED <<unitVars, worldVars, gridTick, wmu, tickCount, killMap, boundaryDeaths,
                   leaderboard, toRespawn, spawning, deaths, botVars, connVars, payload,
                   histVars>>

\* tick, lines 133-137: the victim's connection looked up; if it has one, the
\* shared lock taken
NoticeGet ==
    /\ lpc = "dn_get"
    /\ IF connList[li] \in conns
       THEN /\ CanRLock(wmu)
            /\ wmu' = [wmu EXCEPT !.readers = @ \cup {"loop"}]
            /\ lpc' = "dn_read"
            /\ UNCHANGED <<li, connList>>
       ELSE /\ lpc' = IF li = Len(connList) THEN "idle" ELSE "dn_get"
            /\ IF li = Len(connList) THEN connList' = <<>> /\ li' = 0
               ELSE li' = li + 1 /\ UNCHANGED connList
            /\ UNCHANGED wmu
    /\ UNCHANGED <<unitVars, worldVars, gridTick, tickCount, killMap, boundaryDeaths,
                   leaderboard, toRespawn, spawning, deaths, botVars, connVars,
                   payload, histVars>>

\* tick, lines 138-148: the score read, the shared lock released, the death
\* message built
NoticeRead ==
    /\ lpc = "dn_read"
    /\ LET v == connList[li]
       IN payload' = [NoPayload EXCEPT
                         !.to = v, !.kind = "death", !.tick = tickCount,
                         !.killer = killMap[v],
                         !.score = IF v \in DOMAIN Snakes THEN Snakes[v].Score ELSE 0]
    /\ wmu' = [wmu EXCEPT !.readers = @ \ {"loop"}]
    /\ lpc' = "dn_send"
    /\ UNCHANGED <<unitVars, worldVars, gridTick, tickCount, killMap, loopLocals, botVars,
                   connVars, histVars>>

\* the variables of the loop that no reader writes
loopVars ==
    <<gridTick, tickCount, killMap, lpc, loopLocals, botVars, payload, tickFood, diedWith, queries,
      applied, crossed>>

\* the handler, lines 91-113: the connection registered and welcomed
Connect(c) ==
    /\ rpc[c] = "off"
    /\ Cardinality(conns) < MaxPlayers
    /\ conns' = conns \cup {c}
    /\ sent' = [sent EXCEPT ![c] = "welcome"]
    /\ rpc' = [rpc EXCEPT ![c] = "read"]
    /\ UNCHANGED <<unitVars, worldVars, wmu, loopVars, input, cmu, closed, msg, msgsLeft,
                   stored>>

\* ReadLoop, lines 156-162, and onJoin, line 116: a join or respawn message
\* read, the world's lock taken
JoinLock(c) ==
    /\ rpc[c] = "read"
    /\ msgsLeft[c] > 0
    /\ CanLock(wmu)
    /\ msgsLeft' = [msgsLeft EXCEPT ![c] = @ - 1]
    /\ wmu' = [wmu EXCEPT !.writer = c]
    /\ rpc' = [rpc EXCEPT ![c] = "join"]
    /\ UNCHANGED <<unitVars, worldVars, loopVars, conns, input, cmu, closed, msg, sent,
                   stored>>

\* Drops with the food DropFood returns thrown away
DropsNothing(w, id, rnd) ==
    IF id \in DOMAIN w.Snakes /\ w.Snakes[id].Alive
    THEN [w EXCEPT !.Snakes[id] = DropFood(w.Snakes[id], w.foodCounter + 1, rnd.jx,
                                           rnd.jy).snake]
    ELSE w

\* the world after a snake has left the game: its food dropped if it was alive
Drops(w, id, rnd) ==
    IF id \in DOMAIN w.Snakes /\ w.Snakes[id].Alive
    THEN LET drop == DropFood(w.Snakes[id], w.foodCounter + 1, rnd.jx, rnd.jy)
         IN [w EXCEPT !.Snakes[id] = drop.snake,
                      !.Food = AddDrop(w.Food, drop.food, w.foodCounter + 1),
                      !.foodCounter = w.foodCounter + Len(drop.food)]
    ELSE w

\* onJoin, lines 117-127: the old snake's food dropped, the new snake added,
\* the lock released
JoinBody(c) ==
    /\ rpc[c] = "join"
    /\ \E rnd \in Draws, d \in JoinDraws :
         LET w1 == Drops(WorldNow, c, rnd)
         IN WorldBecomes([w1 EXCEPT !.Snakes = MapSet(w1.Snakes, c,
                                       NewSnake(c, NameOf(c), d[1], d[2], d[3]))])
    /\ wmu' = Unlocked
    /\ rpc' = [rpc EXCEPT ![c] = "read"]
    /\ crossed' = MapDelete(crossed, c)
    /\ UNCHANGED <<unitVars, gridTick, tickCount, killMap, lpc, loopLocals, botVars,
                   payload, tickFood, diedWith, queries, applied, conns, input, cmu, closed, msg,
                   msgsLeft, sent, stored>>

\* ReadLoop, line 165, and setInput, lines 60-62: an input message read, the
\* connection's mutex taken, the angle stored
RecvInput(c) ==
    /\ rpc[c] = "read"
    /\ msgsLeft[c] > 0
    /\ ConnFree(cmu[c])
    /\ \E m \in Inputs :
         /\ msg' = [msg EXCEPT ![c] = m]
         /\ input' = [input EXCEPT ![c].Angle = m.Angle]
    /\ cmu' = [cmu EXCEPT ![c] = c]
    /\ msgsLeft' = [msgsLeft EXCEPT ![c] = @ - 1]
    /\ rpc' = [rpc EXCEPT ![c] = "set_boost"]
    /\ UNCHANGED <<unitVars, worldVars, wmu, loopVars, conns, closed, sent, stored>>

\* setInput, lines 63-64: the boost stored, the mutex released
SetBoost(c) ==
    /\ rpc[c] = "set_boost"
    /\ input' = [input EXCEPT ![c].Boost = msg[c].Boost]
    /\ stored' = [stored EXCEPT ![c] = [@ EXCEPT !.msg = msg[c], !.seq = @ + 1]]
    /\ cmu' = [cmu EXCEPT ![c] = ""]
    /\ rpc' = [rpc EXCEPT ![c] = "read"]
    /\ UNCHANGED <<unitVars, worldVars, wmu, loopVars, conns, closed, msg, msgsLeft, sent>>

\* ReadLoop with a malformed message taken for a failed read
RecvBadReturns(c) ==
    /\ rpc[c] = "read"
    /\ msgsLeft[c] > 0
    /\ msgsLeft' = [msgsLeft EXCEPT ![c] = @ - 1]
    /\ stored' = [stored EXCEPT ![c] = [@ EXCEPT !.bad = @ + 1, !.badAt = stored[c].seq]]
    /\ conns' = conns \ {c}
    /\ rpc' = [rpc EXCEPT ![c] = "disc_lock"]
    /\ UNCHANGED <<unitVars, worldVars, wmu, loopVars, input, cmu, closed, msg, sent>>

\* ReadLoop, lines 150-154 and 156-166: a message that json.Unmarshal rejects,
\* or of a type that is neither join, respawn nor input, is read and dropped
RecvBad(c) ==
    /\ rpc[c] = "read"
    /\ msgsLeft[c] > 0
    /\ msgsLeft' = [msgsLeft EXCEPT ![c] = @ - 1]
    /\ stored' = [stored EXCEPT ![c] = [@ EXCEPT !.bad = @ + 1, !.badAt = stored[c].seq]]
    /\ UNCHANGED <<unitVars, worldVars, wmu, loopVars, conns, input, cmu, closed, rpc, msg,
                   sent>>

\* ReadLoop, lines 142-147, and onDisconnect, line 132: the read fails, the
\* connection is unregistered
RecvClose(c) ==
    /\ rpc[c] = "read"
    /\ conns' = conns \ {c}
    /\ rpc' = [rpc EXCEPT ![c] = "disc_lock"]
    /\ UNCHANGED <<unitVars, worldVars, wmu, loopVars, input, cmu, closed, msg, msgsLeft,
                   sent, stored>>

\* onDisconnect, line 133: the world's lock taken
DiscLock(c) ==
    /\ rpc[c] = "disc_lock"
    /\ CanLock(wmu)
    /\ wmu' = [wmu EXCEPT !.writer = c]
    /\ rpc' = [rpc EXCEPT ![c] = "disc"]
    /\ UNCHANGED <<unitVars, worldVars, loopVars, conns, input, cmu, closed, msg, msgsLeft,
                   sent, stored>>

\* onDisconnect without RemoveSnake
DiscBodyKeeps(c) ==
    /\ rpc[c] = "disc"
    /\ \E rnd \in Draws : WorldBecomes(Drops(WorldNow, c, rnd))
    /\ wmu' = Unlocked
    /\ rpc' = [rpc EXCEPT ![c] = "close"]
    /\ crossed' = MapDelete(crossed, c)
    /\ UNCHANGED <<unitVars, gridTick, tickCount, killMap, lpc, loopLocals, botVars,
                   payload, tickFood, diedWith, queries, applied, conns, input, cmu, closed, msg,
                   msgsLeft, sent, stored>>

\* onDisconnect, lines 134-141: the snake's food dropped, the snake removed,
\* the lock released
DiscBody(c) ==
    /\ rpc[c] = "disc"
    /\ \E rnd \in Draws :
         LET w1 == Drops(WorldNow, c, rnd)
         IN WorldBecomes([w1 EXCEPT !.Snakes = MapDelete(w1.Snakes, c)])
    /\ wmu' = Unlocked
    /\ rpc' = [rpc EXCEPT ![c] = "close"]
    /\ crossed' = MapDelete(crossed, c)
    /\ UNCHANGED <<unitVars, gridTick, tickCount, killMap, lpc, loopLocals, botVars,
                   payload, tickFood, diedWith, queries, applied, conns, input, cmu, closed, msg,
                   msgsLeft, sent, stored>>

\* Conn.Close
Close(c) ==
    /\ rpc[c] = "close"
    /\ ConnFree(cmu[c])
    /\ closed' = [closed EXCEPT ![c] = TRUE]
    /\ rpc' = [rpc EXCEPT ![c] = "gone"]
    /\ UNCHANGED <<unitVars, worldVars, wmu, loopVars, conns, input, cmu, msg, msgsLeft,
                   sent, stored>>

\* tick with the world locked, lines 48-123
LoopMutates == TickBegin \/ TickBots \/ TickPlayer \/ TickResolve

\* tick after the world is unlocked, lines 126-149: the bot count, the
\* broadcast, the death notices
LoopDelivers ==
    \/ TickRespawns \/ RespawnLock \/ RespawnDelete \/ SpawnLock \/ SpawnAdd
    \/ BroadcastStart \/ BcastRLock \/ BcastBuild \/ LoopSend
    \/ NoticeStart \/ NoticeGet \/ NoticeRead

\* the steps the game loop goroutine takes by itself
LoopStep == LoopMutates \/ LoopDelivers

\* the steps a connection's goroutine takes by itself, once a message is read
ReaderStep(c) == JoinBody(c) \/ SetBoost(c) \/ DiscLock(c) \/ DiscBody(c) \/ Close(c)

\* what the clients and the network do
ClientStep(c) ==
    Connect(c) \/ JoinLock(c) \/ RecvInput(c) \/ RecvBad(c) \/ RecvClose(c)

Next ==
    \/ LoopStep
    \/ PeerDrains
    \/ \E c \in ConnIds : ReaderStep(c) \/ ClientStep(c)

Spec == Init /\ [][Next]_vars

\* the running servers of StartWorlds with a connection
InitFair == InitFrom({sw \in StartWorlds : sw.kind \in {"respawn", "edge"}})

\* the scheduler is fair to the game loop once it unlocked the world and to
\* the readers; the clients and the network owe nothing
SpecFair ==
    InitFair /\ [][Next]_vars /\ WF_vars(LoopDelivers)
    /\ \A c \in ConnIds : WF_vars(ReaderStep(c))

(***************************************************************************)
(* SpecWorld: World.MaintainFoodCount, World.Leaderboard and the state     *)
(* message broadcast builds for one connection, applied to worlds of a     *)
(* dozen snakes: more than the leaderboard lists, some dead, one with only *)
(* its body in the first snake's viewport; food inside that viewport, in a *)
(* grid cell that overlaps it, and far away; food counts around the target.*)
(***************************************************************************)
\* the snakes of these worlds, in the order of the map loops followed
WorldRank ==
    <<"s01", "s02", "s03", "s04", "s05", "s06", "s07", "s08", "s09", "s10", "s11", "s12">>

\* the draws of NewSnake that made snake i, <<r, spawnAngle, angle>>: s01 at
\* the centre; s02 with its head right of s01's viewport and its tail in it;
\* s03 left of it; s04 with its head in it; the others far to the right
WorldDraw(i) ==
    IF i = 1 THEN <<0, 0, 0>>
    ELSE IF i = 2 THEN <<1000, 0, 0>>
    ELSE IF i = 3 THEN <<1000, PI, 0>>
    ELSE IF i = 4 THEN <<500, PI \div 2, 0>>
    ELSE <<2000 + 300 * i, 0, 0>>

\* snake i after (i * k) % 4 meals of level-10 food, dead if its id is in dead
WorldSnake(i, k, dead) ==
    LET d == WorldDraw(i)
        s == GrowTimes(NewSnake(WorldRank[i], WorldRank[i], d[1], d[2], d[3]), (i * k) % 4)
    IN IF WorldRank[i] \in dead THEN DropFood(s, 0, 0, 0).snake ELSE s

\* the food followed: 1 inside s01's viewport, 2 right of it in a grid cell
\* the viewport overlaps, 3 far away, 4 a moving item inside the viewport
WorldFood ==
    (1 :> newFoodWithLevel(1, WorldCenterX + 500, WorldCenterY, FoodLevel1, FALSE))
    @@ (2 :> newFoodWithLevel(2, WorldCenterX + 1000, WorldCenterY + 200, FoodLevel3, FALSE))
    @@ (3 :> newFoodWithLevel(3, WorldCenterX + 4500, WorldCenterY, FoodLevel1, FALSE))
    @@ (4 :> newFoodWithLevel(4, WorldCenterX + 100, WorldCenterY - 200, FoodLevel10, TRUE))

\* the choices of a world: the meals (k), the dead snakes, the food followed,
\* the food eaten since the grid was built, the food and moving food elsewhere
WorldMeals == {0, 1, 3}
WorldDead == {{}, {"s04"}, {"s04", "s05", "s06"}}
WorldFoodIds == {{}, {1}, {1, 2, 4}, {1, 2, 3, 4}}
WorldEaten == {{}, {1}}
WorldElsewhere ==
    {TargetFoodCount - 500, TargetFoodCount - 103, TargetFoodCount - 50,
     TargetFoodCount - 3, TargetFoodCount}
WorldMovingElsewhere == {0, 2}
\* the connections whose state message is built
Viewers == {"s01", "s04", "s12"}

\* the two orders of a map loop followed: WorldRank and its reverse
WorldOrders(keys) ==
    LET up == SelectSeq(WorldRank, LAMBDA id : id \in keys)
    IN {up, [i \in 1..Len(up) |-> up[Len(up) + 1 - i]]}

InitWorld ==
    /\ \E k \in WorldMeals, dead \in WorldDead :
         Snakes = [id \in {WorldRank[i] : i \in 1..Len(WorldRank)} |->
                     WorldSnake(CHOOSE i \in 1..Len(WorldRank) : WorldRank[i] = id, k, dead)]
    /\ \E ids \in WorldFoodIds, eaten \in WorldEaten :
         /\ Grid = RebuildGrid(WorldFood, Snakes, FoodOrder([id \in ids |-> WorldFood[id]]),
                            WorldRank)
         /\ Food = [id \in ids \ eaten |-> WorldFood[id]]
    /\ foodElsewhere \in WorldElsewhere
    /\ movingElsewhere \in WorldMovingElsewhere
    /\ foodCounter = InitialFoodCount
    /\ leaderboard = <<>>
    /\ payload = NoPayload
    /\ lastOp = [op |-> "NewWorld", outOfBounds |-> FALSE]
    /\ steps = 0
    /\ snake = <<>> /\ dropped = <<>>
    /\ deaths = <<>> /\ aliveSnakes = <<>> /\ cpc = "idle" /\ ci = 0 /\ cj = 0
    /\ gridTick = 0 /\ wmu = Unlocked /\ tickCount = 0 /\ killMap = <<>> /\ lpc = "off"
    /\ boundaryDeaths = {} /\ connList = <<>> /\ li = 0
    /\ toRespawn = <<>> /\ spawning = <<>> /\ bots = <<>> /\ botUsedNames = {}
    /\ botSeq = 0 /\ conns = {} /\ input = <<>> /\ cmu = <<>> /\ closed = <<>>
    /\ rpc = <<>> /\ msg = <<>> /\ msgsLeft = <<>> /\ sent = <<>>
    /\ tickFood = {} /\ diedWith = <<>> /\ crossed = <<>>
    /\ queries = {} /\ stored = <<>> /\ applied = <<>>

\* what SpecWorld leaves alone whatever it does
worldRest ==
    <<snake, dropped, deaths, aliveSnakes, cpc, ci, cj, gridTick, wmu, tickCount, killMap,
      lpc, boundaryDeaths, connList, li, toRespawn, spawning, bots, botUsedNames, botSeq,
      conns, input, cmu, closed, rpc, msg, msgsLeft, sent, tickFood, diedWith, crossed, queries,
      stored, applied>>

\* w.MaintainFoodCount()
WorldMaintain ==
    /\ steps < MaxQueries
    /\ \E rnd \in Draws : WorldBecomes(MaintainFoodCount(WorldNow, rnd))
    /\ lastOp' = [op |-> "MaintainFoodCount", outOfBounds |-> FALSE, was |-> WorldNow]
    /\ steps' = steps + 1
    /\ UNCHANGED <<leaderboard, payload, worldRest>>

\* leaderboard := w.Leaderboard()
WorldLeaderboard ==
    /\ steps < MaxQueries
    /\ \E order \in WorldOrders(DOMAIN Snakes) : leaderboard' = Leaderboard(WorldNow, order)
    /\ lastOp' = [op |-> "Leaderboard", outOfBounds |-> FALSE]
    /\ steps' = steps + 1
    /\ UNCHANGED <<worldVars, payload, worldRest>>

\* one iteration of broadcast's loop, for connection c, up to the message
WorldBroadcast ==
    /\ steps < MaxQueries
    /\ \E c \in Viewers, order \in WorldOrders(DOMAIN Snakes) :
         payload' = StateMsgFor(c, order)
    /\ lastOp' = [op |-> "broadcast", outOfBounds |-> FALSE]
    /\ steps' = steps + 1
    /\ UNCHANGED <<worldVars, leaderboard, worldRest>>

NextWorld == WorldMaintain \/ WorldLeaderboard \/ WorldBroadcast

SpecWorld == InitWorld /\ [][NextWorld]_vars

(***************************************************************************)
(* SpecAdmit: the WebSocket handler's admission of connections             *)
(* (server/main.go), run by the goroutines net/http starts, one for each   *)
(* request.  Three requests are followed step by step while the server     *)
(* already holds two connections fewer than MaxPlayers.  The rate limiter  *)
(* answers by the clock: either answer can come.                           *)
(***************************************************************************)
Handlers == {"h1", "h2", "h3"}

\* the connections registered besides those of the handlers followed
ConnsElsewhere == MaxPlayers - 2

\* ConnManager.Count
Count(cs) == Cardinality(cs) + ConnsElsewhere

\* what SpecAdmit leaves alone whatever it does
admitRest ==
    <<snakeVars, collideVars, Food, foodElsewhere, movingElsewhere, gridTick, wmu, tickCount,
      killMap, lpc, boundaryDeaths, connList, li, leaderboard, toRespawn, spawning, bots,
      botUsedNames, botSeq, input, cmu, closed, msg, msgsLeft, payload, tickFood, diedWith,
      queries, stored, applied, crossed>>

InitAdmit ==
    /\ conns = {}
    /\ rpc = [h \in Handlers |-> "off"]
    /\ sent = [h \in Handlers |-> "none"]
    /\ snake = <<>> /\ dropped = <<>> /\ steps = 0 /\ foodCounter = 0
    /\ lastOp = [op |-> "main", outOfBounds |-> FALSE]
    /\ Snakes = <<>> /\ Grid = <<>> /\ Food = <<>> /\ foodElsewhere = 0 /\ movingElsewhere = 0
    /\ deaths = <<>> /\ aliveSnakes = <<>> /\ cpc = "idle" /\ ci = 0 /\ cj = 0
    /\ gridTick = 0 /\ wmu = Unlocked /\ tickCount = 0 /\ killMap = <<>> /\ lpc = "off"
    /\ boundaryDeaths = {} /\ connList = <<>> /\ li = 0 /\ leaderboard = <<>>
    /\ toRespawn = <<>> /\ spawning = <<>> /\ bots = <<>> /\ botUsedNames = {}
    /\ botSeq = 0 /\ input = <<>> /\ cmu = <<>> /\ closed = <<>>
    /\ msg = <<>> /\ msgsLeft = <<>> /\ payload = NoPayload
    /\ tickFood = {} /\ diedWith = <<>> /\ crossed = <<>>
    /\ queries = {} /\ stored = <<>> /\ applied = <<>>

\* the handler, lines 91-98: the limits checked after the upgrade
AdmitCheck(h) ==
    /\ rpc[h] = "off"
    /\ \E allow \in BOOLEAN :
         IF Count(conns) >= MaxPlayers
         THEN /\ rpc' = [rpc EXCEPT ![h] = "full"]
              /\ sent' = [sent EXCEPT ![h] = "error"]
         ELSE IF ~allow
         THEN /\ rpc' = [rpc EXCEPT ![h] = "limited"]
              /\ sent' = [sent EXCEPT ![h] = "error"]
         ELSE /\ rpc' = [rpc EXCEPT ![h] = "admitted"]
              /\ sent' = sent
    /\ UNCHANGED <<conns, admitRest>>

\* the handler, lines 103-113: conns.Add(conn), the welcome sent
AdmitAdd(h) ==
    /\ rpc[h] = "admitted"
    /\ conns' = conns \cup {h}
    /\ sent' = [sent EXCEPT ![h] = "welcome"]
    /\ rpc' = [rpc EXCEPT ![h] = "read"]
    /\ UNCHANGED admitRest

\* onDisconnect, line 133: conns.Remove(id) once the read fails
AdmitRemove(h) ==
    /\ rpc[h] = "read"
    /\ conns' = conns \ {h}
    /\ rpc' = [rpc EXCEPT ![h] = "gone"]
    /\ UNCHANGED <<sent, admitRest>>

\* the client asks again: a new request, a new goroutine
AdmitAgain(h) ==
    /\ rpc[h] \in {"full", "limited", "gone"}
    /\ rpc' = [rpc EXCEPT ![h] = "off"]
    /\ sent' = [sent EXCEPT ![h] = "none"]
    /\ UNCHANGED <<conns, admitRest>>

NextAdmit ==
    \E h \in Handlers : AdmitCheck(h) \/ AdmitAdd(h) \/ AdmitRemove(h) \/ AdmitAgain(h)

SpecAdmit == InitAdmit /\ [][NextAdmit]_vars

(***************************************************************************)
(* SpecBots: the BotManager (server/bot.go) from its construction on, tick *)
(* after tick: the deaths of a tick handed to HandleDeaths, then           *)
(* MaintainBotCount.  Of the 50 bots three are followed, and of botNames a *)
(* pool of three entries, one name listed twice as botNames lists          *)
(* "Sombra": fewer names than bots, so that the pool runs out.  A client   *)
(* may join under any name, a bot's included.                              *)
(***************************************************************************)
\* botNames, lines 9-48
NamePool == <<"Viper", "Cobra", "Viper">>

\* the bots followed of the BotCount the manager holds: as many as the pool
\* has entries
ManagerBots == Len(NamePool)
ManagerElsewhere == BotCount - ManagerBots

\* the ids SpawnBot makes, in the order it makes them
ManagerIds == <<"b1", "b2", "b3", "b4", "b5", "b6">>

\* the orders of a loop over a map of bots the model follows: the ids as
\* made, and in the opposite order
ManagerOrders(keys) ==
    LET up == SelectSeq(ManagerIds, LAMBDA id : id \in keys)
    IN {up, [i \in 1..Len(up) |-> up[Len(up) + 1 - i]]}

\* the names a client may join under
PlayerNames == {"ann", "Viper"}

RECURSIVE SuffixedName(_, _, _)
\* pickBotName, lines 409-415: base with the first number from i on that
\* makes a name not in use
SuffixedName(base, used, i) ==
    LET name == base \o " " \o ToString(i)
    IN IF name \notin used THEN name ELSE SuffixedName(base, used, i + 1)

\* pickBotName that takes the first name of the shuffle, in use or not
pickBotNameFirst(used, perm, base) == NamePool[perm[1]]

\* pickBotName: perm is rand.Perm's shuffle of the pool, base the index
\* rand.Intn draws
pickBotName(used, perm, base) ==
    LET free == {i \in 1..Len(perm) : NamePool[perm[i]] \notin used}
    IN IF free # {} THEN NamePool[perm[MinOf(free)]]
       ELSE SuffixedName(NamePool[base], used, 2)

\* the draws of a call of SpawnBot
SpawnDrawsOf == [perm : {<<1, 2, 3>>, <<2, 3, 1>>}, base : {1, 2}]

\* SpawnBot on the manager m: its bots, the world's snakes, botUsedNames and
\* the number of ids made
SpawnBot(m, rnd) ==
    LET id == ManagerIds[m.seq + 1]
        name == pickBotName(m.used, rnd.perm, rnd.base)
        s == NewSnake(id, name, 16, PI, 0)
    IN [bots |-> MapSet(m.bots, id, NewBot(id, s.Angle, 60)),
        Snakes |-> MapSet(m.Snakes, id, s),
        used |-> m.used \cup {name},
        seq |-> m.seq + 1]

\* tickRespawns' second loop, lines 370-379, for one bot, the old bot kept
RespawnOneKeeps(m, oldID, rnd) ==
    SpawnBot([m EXCEPT !.used = IF oldID \in DOMAIN m.Snakes
                                 THEN @ \ {m.Snakes[oldID].Name} ELSE @,
                       !.Snakes = MapDelete(@, oldID)], rnd)

\* tickRespawns' second loop, lines 370-379, for one bot
RespawnOne(m, oldID, rnd) ==
    SpawnBot([m EXCEPT !.used = IF oldID \in DOMAIN m.Snakes
                                 THEN @ \ {m.Snakes[oldID].Name} ELSE @,
                       !.Snakes = MapDelete(@, oldID),
                       !.bots = MapDelete(@, oldID)], rnd)

RECURSIVE RespawnAll(_, _, _)
RespawnAll(m, toRespawnIds, rnd) ==
    IF toRespawnIds = <<>> THEN m
    ELSE RespawnAll(RespawnOne(m, toRespawnIds[1], rnd), Tail(toRespawnIds), rnd)

\* tickRespawns: botOrder is the order of its loop over bm.bots
tickRespawns(m, botOrder, rnd) ==
    LET ticked == [id \in DOMAIN m.bots |->
                     IF m.bots[id].respawnIn <= 0 THEN m.bots[id]
                     ELSE [m.bots[id] EXCEPT !.respawnIn = @ - 1]]
    IN RespawnAll([m EXCEPT !.bots = ticked],
                  SelectSeq(botOrder, LAMBDA id : m.bots[id].respawnIn = 1), rnd)

\* MaintainBotCount
MaintainBotCount(m, botOrder, rnd) ==
    LET r == tickRespawns(m, botOrder, rnd)
    IN IF Cardinality(DOMAIN r.bots) + ManagerElsewhere < BotCount
       THEN SpawnBot(r, rnd) ELSE r

ManagerNow == [bots |-> bots, Snakes |-> Snakes, used |-> botUsedNames, seq |-> botSeq]

ManagerBecomes(m) ==
    /\ bots' = m.bots /\ Snakes' = m.Snakes /\ botUsedNames' = m.used /\ botSeq' = m.seq

\* what SpecBots leaves alone whatever it does
botsRest ==
    <<snake, dropped, steps, foodCounter, Grid, aliveSnakes, cpc, ci, cj, Food, foodElsewhere,
      movingElsewhere, gridTick, wmu, tickCount, killMap, boundaryDeaths, connList, li,
      leaderboard, toRespawn, spawning, conns, input, cmu, closed, rpc, msg, msgsLeft,
      payload, tickFood, diedWith, sent, queries, stored, applied>>

InitBots ==
    /\ bots = <<>> /\ Snakes = <<>> /\ botUsedNames = {} /\ botSeq = 0
    /\ lpc = "new" /\ deaths = NoDeaths /\ crossed = <<>>
    /\ lastOp = [op |-> "NewBotManager", outOfBounds |-> FALSE]
    /\ snake = <<>> /\ dropped = <<>> /\ steps = 0 /\ foodCounter = 0
    /\ Grid = <<>> /\ Food = <<>> /\ foodElsewhere = 0 /\ movingElsewhere = 0
    /\ aliveSnakes = <<>> /\ cpc = "idle" /\ ci = 0 /\ cj = 0
    /\ gridTick = 0 /\ wmu = Unlocked /\ tickCount = 0 /\ killMap = <<>>
    /\ boundaryDeaths = {} /\ connList = <<>> /\ li = 0 /\ leaderboard = <<>>
    /\ toRespawn = <<>> /\ spawning = <<>>
    /\ conns = {} /\ input = <<>> /\ cmu = <<>> /\ closed = <<>>
    /\ rpc = <<>> /\ msg = <<>> /\ msgsLeft = <<>> /\ payload = NoPayload
    /\ tickFood = {} /\ diedWith = <<>> /\ sent = <<>>
    /\ queries = {} /\ stored = <<>> /\ applied = <<>>

\* NewGameLoop, lines 27-29: one SpawnBot of the BotCount
BotsNew ==
    /\ lpc = "new"
    /\ \E rnd \in SpawnDrawsOf : ManagerBecomes(SpawnBot(ManagerNow, rnd))
    /\ lpc' = IF botSeq + 1 = ManagerBots THEN "idle" ELSE "new"
    /\ lastOp' = [op |-> "SpawnBot", outOfBounds |-> FALSE, was |-> bots]
    /\ UNCHANGED <<deaths, crossed, botsRest>>

\* onJoin: a client joins under the name it sends
BotsJoin ==
    /\ lpc = "idle" /\ "p1" \notin DOMAIN Snakes
    /\ \E name \in PlayerNames : Snakes' = MapSet(Snakes, "p1", NewSnake("p1", name, 0, 0, 0))
    /\ lastOp' = [op |-> "onJoin", outOfBounds |-> FALSE, was |-> bots]
    /\ UNCHANGED <<bots, botUsedNames, botSeq, lpc, deaths, crossed, botsRest>>

\* tick, lines 59-109: the deaths of the tick.  detectCollisions and Update
\* find victims, any of the live snakes, each killed by another live snake, whose
\* name deaths records, or by the boundary; the dead bots still in the world
\* are listed again as boundary deaths; the victims are converted to food and
\* HandleDeaths is called.  The model follows the deaths of ticks in which no
\* bot followed awaits its respawn.  lastOp.killers is history: the killer's id.
BotsDeaths ==
    /\ lpc = "idle"
    /\ LET live == {id \in DOMAIN Snakes : Snakes[id].Alive}
       IN \E victims \in SUBSET (live \cap DOMAIN bots) :
            /\ victims # {} => DeadBots(ManagerNow, bots) = {}
            /\ botSeq + Cardinality(victims) <= ManagerBots + MaxRespawns
            /\ \E killers \in [victims -> live \cup {"Boundary"}],
                  vOrder \in ManagerOrders(victims \cup DeadBots(ManagerNow, bots)),
                  botOrder \in ManagerOrders(DOMAIN bots) :
                 /\ \A v \in victims : killers[v] # v
                 /\ LET dm == MergeBoundary(
                                  [v \in victims |-> IF killers[v] = "Boundary" THEN "Boundary"
                                                     ELSE Snakes[killers[v]].Name],
                                  DeadBots(ManagerNow, bots))
                        after == [id \in DOMAIN Snakes |->
                                    IF id \in victims THEN DropFood(Snakes[id], 0, 0, 0).snake
                                    ELSE Snakes[id]]
                    IN /\ Snakes' = after
                       /\ deaths' = dm
                       /\ bots' = HandleDeaths(bots, [Snakes |-> after], dm, vOrder, botOrder)
                       /\ lastOp' = [op |-> "HandleDeaths", outOfBounds |-> FALSE,
                                     was |-> bots, killers |-> killers]
                       /\ crossed' = [v \in DOMAIN crossed \cup victims |->
                                        IF v \in DOMAIN crossed THEN crossed[v] ELSE 0]
    /\ lpc' = "respawns"
    /\ UNCHANGED <<botUsedNames, botSeq, botsRest>>

\* tick, line 126: MaintainBotCount.  crossed is history: the calls of
\* MaintainBotCount each dead bot tracked has seen since it died
BotsMaintain ==
    /\ lpc = "respawns"
    /\ \E botOrder \in ManagerOrders(DOMAIN bots), rnd \in SpawnDrawsOf :
         ManagerBecomes(MaintainBotCount(ManagerNow, botOrder, rnd))
    /\ crossed' = [v \in DOMAIN crossed \cap DOMAIN bots' |-> crossed[v] + 1]
    /\ deaths' = NoDeaths
    /\ lastOp' = [op |-> "MaintainBotCount", outOfBounds |-> FALSE, was |-> bots]
    /\ lpc' = "idle"
    /\ UNCHANGED botsRest

NextBots == BotsNew \/ BotsJoin \/ BotsDeaths \/ BotsMaintain

SpecBots == InitBots /\ [][NextBots]_vars

(***************************************************************************)
(* SpecHunt: one bot followed tick after tick (server/bot.go Update and    *)
(* decideBotInput, inside server/game_loop.go tick) in worlds that put     *)
(* each of its rules to work: the bot at the centre or inside the boundary *)
(* buffer, new or boosted down to seven segments by a flee that left it a  *)
(* boost countdown, with or without a kill site just set; near it a        *)
(* smaller snake leaving, a bigger one, a body across its path, food       *)
(* ahead.  The other snakes are players whose stored input does not change *)
(* while the run lasts.                                                    *)
(***************************************************************************)
\* the bot followed
Hunter == "b1"

\* a snake moved by <<dx, dy>>
Shifted(s, dx, dy) ==
    [s EXCEPT !.Segments = [i \in DOMAIN s.Segments |->
                              <<s.Segments[i][1] + dx, s.Segments[i][2] + dy>>]]

\* a snake moved so that its head is at <<x, y>>
HeadAt(s, x, y) == Shifted(s, x - HeadOf(s)[1], y - HeadOf(s)[2])

\* the bot's snake: as spawned at the centre heading east, or after nine
\* ticks of boost (seven segments), and moved to the boundary buffer or not
HunterSnake(short, edge) ==
    LET new == NewSnake(Hunter, "Viper", 0, 0, 0)
    IN Shifted(IF short THEN BoostTimes(new, 9) ELSE new,
               IF edge THEN WorldRadius - BotBoundaryBuffer + 100 ELSE 0, 0)

\* a snake boosted down to three segments, heading west, 280 px west of <<x, y>>
PreySnake(x, y) == HeadAt(BoostTimes(NewSnake("p1", "ann", 0, 0, PI), 21), x - 280, y)

\* a snake of score 20 heading west, 150 px west of <<x, y>>
ThreatSnake(x, y) == HeadAt(GrowTimes(NewSnake("p2", "bob", 0, 0, PI), 1), x - 150, y)

\* a new snake heading north whose body crosses the line east of <<x, y>>
WallSnake(x, y) == HeadAt(NewSnake("p2", "bob", 0, 0, PI \div 2), x + 60, y + 40)

\* the other snakes of a world around a head at <<x, y>>
HuntOthers(kind, x, y) ==
    IF kind = "prey" THEN ("p1" :> PreySnake(x, y))
    ELSE IF kind = "threat" THEN ("p2" :> ThreatSnake(x, y))
    ELSE IF kind = "both" THEN ("p1" :> PreySnake(x, y)) @@ ("p2" :> ThreatSnake(x, y))
    ELSE IF kind = "wall" THEN ("p2" :> WallSnake(x, y))
    ELSE <<>>

HuntKinds == {"none", "prey", "threat", "both", "wall"}

\* the worlds a run starts from.  short: the bot has boosted down to seven
\* segments in a flee that left it a boost countdown; edge: it is inside the
\* boundary buffer; rushing: HandleDeaths has just set its kill site; fed: a
\* food item lies ahead; moving: that item is a moving one, travelling the
\* way the bot heads; overtaken: a second moving item follows the bot the
\* same way; kind: the other snakes
HuntStarts ==
    [short : BOOLEAN, edge : {FALSE}, rushing : BOOLEAN, fed : {FALSE}, moving : {FALSE},
     overtaken : {FALSE}, kind : HuntKinds]
    \cup [short : BOOLEAN, edge : {TRUE}, rushing : BOOLEAN, fed : {FALSE},
          moving : {FALSE}, overtaken : {FALSE}, kind : {"none"}]
    \cup [short : BOOLEAN, edge : {FALSE}, rushing : {FALSE}, fed : {TRUE},
          moving : BOOLEAN, overtaken : {FALSE}, kind : {"none"}]
    \cup [short : {FALSE}, edge : {FALSE}, rushing : {FALSE}, fed : {TRUE},
          moving : {TRUE}, overtaken : {TRUE}, kind : {"none"}]

\* the draws rand.Float64() * Pi of a forced new direction (milliradians)
HuntTurns == {0, PI \div 2, PI - 1}

\* a moving food item a run starts with: ahead px east of a head at <<x, y>>
\* that heads east, travelling east
HuntMovingFood(id, x, y, ahead) ==
    [newFoodWithLevel(id, x + ahead, y, FoodLevel10, TRUE)
        EXCEPT !.MoveAngle = 0, !.MoveSpeed = MovingFoodSpeed,
               !.MoveTicks = MovingFoodDirMinTicks]

\* the random draws of a tick of SpecHunt
HuntDraw == CHOOSE d \in Draws : ~d.dropFood /\ d.near = 0

\* the live snakes other than sn with the head within radius of sn's head
HeadsWithin(sn, snakes, radius) ==
    {id \in DOMAIN snakes :
        /\ id # sn.ID /\ snakes[id].Alive
        /\ Dist2Heads(sn, snakes[id]) < radius * radius}

\* the body entries the grid returns within BotDangerRadius of sn's head that
\* lie within 45 degrees of its heading
InPath(sn, grid) ==
    LET head == HeadOf(sn)
        nearby == NearbySnakeBody(grid, head[1], head[2], BotDangerRadius, sn.ID)
    IN {i \in 1..Len(nearby) :
          Abs(normalizeAngle(Atan2(nearby[i].y - head[2], nearby[i].x - head[1]) - sn.Angle))
              < PI \div 4}

\* the guards of decideBotInput's rules, lines 135-137, 147-152, 166-174,
\* 198-206, 218-223, each taken by itself
NearBoundary(sn) ==
    LET dx == HeadOf(sn)[1] - WorldCenterX
        dy == HeadOf(sn)[2] - WorldCenterY
    IN dx * dx + dy * dy > (WorldRadius - BotBoundaryBuffer) * (WorldRadius - BotBoundaryBuffer)

BiggerNear(sn, snakes) ==
    {id \in HeadsWithin(sn, snakes, BotFleeRadius) : snakes[id].Score > sn.Score}

SmallerNear(sn, snakes) ==
    {id \in HeadsWithin(sn, snakes, BotChaseRadius) : snakes[id].Score < sn.Score}

KillSiteFar(bot, sn) ==
    LET ddx == bot.deathFoodX - HeadOf(sn)[1]
        ddy == bot.deathFoodY - HeadOf(sn)[2]
    IN bot.deathFoodTicks > 0 /\ ddx * ddx + ddy * ddy >= 30 * 30

\* the food items of the grid query of line 245 that are not behind sn, line 261
FoodAhead(sn, foodMap, grid) ==
    LET head == HeadOf(sn)
        near == NearbyFood(grid, head[1], head[2], BotFoodSeekRadius)
    IN {fid \in {near[i] : i \in 1..Len(near)} \cap DOMAIN foodMap :
          Abs(normalizeAngle(Atan2(foodMap[fid].Y - head[2], foodMap[fid].X - head[1])
                             - sn.Angle)) <= PI \div 2}

\* lines 247-270: the item the seek rule steers at, the closest of those in
\* front (the first found of several as close), and its distance
SeekTarget(sn, foodMap, grid) ==
    LET head == HeadOf(sn)
        near == NearbyFood(grid, head[1], head[2], BotFoodSeekRadius)
        ahead == FoodAhead(sn, foodMap, grid)
        D2(i) == (foodMap[near[i]].X - head[1]) * (foodMap[near[i]].X - head[1])
                 + (foodMap[near[i]].Y - head[2]) * (foodMap[near[i]].Y - head[2])
        cands == {i \in 1..Len(near) : near[i] \in ahead}
        best == MinOf({i \in cands : \A j \in cands : D2(i) <= D2(j)})
    IN [target |-> near[best], dist |-> ISqrt(D2(best))]

\* bot.seekTicks as line 246 reads it, after the reset of lines 238-242
SeekTicksNow(bot, sn) == IF sn.Score > bot.lastScore THEN 0 ELSE bot.seekTicks

\* the first rule of decideBotInput whose guard holds, lines 135, 145-149,
\* 172, 206, 218-223, 246-270 and 304
RuleOf(bot, sn, snakes, foodMap, grid) ==
    IF NearBoundary(sn) THEN "boundary"
    ELSE IF InPath(sn, grid) # {} THEN "danger"
    ELSE IF BiggerNear(sn, snakes) # {} THEN "flee"
    ELSE IF SmallerNear(sn, snakes) # {} THEN "chase"
    ELSE IF KillSiteFar(bot, sn) THEN "rush"
    ELSE IF SeekTicksNow(bot, sn) < 60 /\ FoodAhead(sn, foodMap, grid) # {} THEN "seek"
    ELSE "roam"

RECURSIVE PlayersStep(_, _, _)
\* tick, lines 67-80: the loop over the connections, in the order of list;
\* r carries the world and the players that crossed the boundary
PlayersStep(r, list, rnd) ==
    IF list = <<>> THEN r
    ELSE LET c == list[1]
         IN IF c \in DOMAIN r.w.Snakes /\ r.w.Snakes[c].Alive
            THEN LET p == PlayerStep(r.w, c, input[c], rnd)
                 IN PlayersStep([w |-> p.w,
                                 out |-> IF p.outOfBounds THEN r.out \cup {c} ELSE r.out],
                                Tail(list), rnd)
            ELSE PlayersStep(r, Tail(list), rnd)

\* what SpecHunt leaves alone whatever it does
huntRest ==
    <<snake, dropped, aliveSnakes, cpc, ci, cj, wmu, connList, li, leaderboard, toRespawn,
      spawning, botUsedNames, botSeq, conns, input, cmu, closed, rpc, msg, msgsLeft, payload,
      tickFood, diedWith, sent, queries, stored, applied, crossed>>

InitHunt ==
    /\ \E hs \in HuntStarts :
         LET sn == HunterSnake(hs.short, hs.edge)
             head == HeadOf(sn)
             others == HuntOthers(hs.kind, head[1], head[2])
             bot == [NewBot(Hunter, sn.Angle, 60) EXCEPT
                        !.boostTicks = IF hs.short THEN 20 ELSE 0,
                        !.deathFoodX = IF hs.rushing THEN head[1] - 2000 ELSE 0,
                        !.deathFoodY = IF hs.rushing THEN head[2] ELSE 0,
                        !.deathFoodTicks = IF hs.rushing THEN 80 ELSE 0]
         IN /\ Snakes = (Hunter :> sn) @@ others
            /\ bots = (Hunter :> bot)
            /\ Food = IF hs.fed /\ hs.moving /\ hs.overtaken
                      THEN (InitialFoodCount :>
                                HuntMovingFood(InitialFoodCount, head[1], head[2], 100))
                           @@ ((InitialFoodCount - 1) :>
                                HuntMovingFood(InitialFoodCount - 1, head[1], head[2], -20))
                      ELSE IF hs.fed /\ hs.moving
                      THEN (InitialFoodCount :>
                                HuntMovingFood(InitialFoodCount, head[1], head[2], 100))
                      ELSE IF hs.fed
                      THEN (InitialFoodCount :>
                                newFoodWithLevel(InitialFoodCount, head[1] + 100, head[2] + 100,
                                                 FoodLevel1, FALSE))
                      ELSE <<>>
            /\ conns = DOMAIN others
            /\ input = [c \in DOMAIN others |-> [Angle |-> others[c].Angle, Boost |-> FALSE]]
            /\ lastOp = [op |-> "HandleDeaths", outOfBounds |-> FALSE, rule |-> "none",
                         angle |-> 0, boost |-> FALSE, bot |-> bot, len |-> Len(sn.Segments),
                         since |-> 0, heading |-> sn.Angle, score |-> sn.Score,
                         target |-> NoFoodID, dist |-> 0, stalled |-> 0, unfed |-> 0]
    /\ Grid = RebuildGrid(Food, Snakes, FoodOrder(Food),
                          CHOOSE o \in LoopOrders(DOMAIN Snakes) : TRUE)
    /\ foodCounter = InitialFoodCount
    /\ foodElsewhere = TargetFoodCount - Cardinality(DOMAIN Food)
    /\ movingElsewhere = 0
    /\ botUsedNames = {"Viper"} /\ botSeq = 1
    /\ deaths = NoDeaths /\ killMap = <<>> /\ tickCount = 0 /\ gridTick = 0 /\ steps = 0
    /\ snake = <<>> /\ dropped = <<>>
    /\ aliveSnakes = <<>> /\ cpc = "idle" /\ ci = 0 /\ cj = 0
    /\ wmu = Unlocked /\ lpc = "idle"
    /\ boundaryDeaths = {} /\ connList = <<>> /\ li = 0 /\ leaderboard = <<>>
    /\ toRespawn = <<>> /\ spawning = <<>>
    /\ cmu = <<>> /\ closed = <<>> /\ rpc = <<>> /\ msg = <<>> /\ msgsLeft = <<>>
    /\ payload = NoPayload /\ tickFood = {} /\ diedWith = <<>> /\ sent = <<>>
    /\ queries = {} /\ stored = <<>> /\ applied = <<>> /\ crossed = <<>>

\* tick, lines 48-63, while the bot followed lives: the tick counted, moving
\* food, the bot's decision and move, the dead bots collected.  lastOp is
\* history: the rule whose guard held first and what decideBotInput returned
\* for the bot, its segments at the call, and since, the ticks begun since
\* HandleDeaths last set its kill site (0 when none was set as the tick began),
\* the heading at the call, the food item the seek rule picked with its
\* distance, stalled, the calls in a row up to this one in which the seek
\* rule picked the item it had steered at in the call before and found it no
\* closer, and unfed, the last of these calls in a row at which the score
\* was no higher than at the call before
HuntBots ==
    /\ lpc = "idle"
    /\ steps < MaxHuntTicks
    /\ Snakes[Hunter].Alive
    /\ \E order \in LoopOrders(DOMAIN Snakes), turn \in HuntTurns :
         \E w0 \in {updateMovingFood(WorldNow, HuntDraw)},
            rnd \in {[HuntDraw EXCEPT !.turn = turn]} :
            \E choice \in {decideBotInput(bots[Hunter], w0.Snakes[Hunter], w0.Snakes,
                                          w0.Food, w0.Grid, order, rnd)},
               r \in {BotsUpdate(w0, bots, <<Hunter>>, order, rnd)},
               rule \in {RuleOf(bots[Hunter], Snakes[Hunter], Snakes, w0.Food, Grid)} :
               \E seen \in {IF rule = "seek"
                             THEN SeekTarget(Snakes[Hunter], w0.Food, Grid)
                             ELSE [target |-> NoFoodID, dist |-> 0]} :
               /\ WorldBecomes(r.w)
               /\ bots' = r.bots
               /\ boundaryDeaths' = DeadBots(r.w, r.bots)
               /\ lastOp' = [op |-> "Update", outOfBounds |-> ~r.w.Snakes[Hunter].Alive,
                             rule |-> rule,
                             angle |-> choice.angle, boost |-> choice.boost,
                             bot |-> choice.bot, len |-> Len(Snakes[Hunter].Segments),
                             since |-> IF bots[Hunter].deathFoodTicks = 0 THEN 0
                                       ELSE lastOp.since + 1,
                             heading |-> Snakes[Hunter].Angle,
                             score |-> Snakes[Hunter].Score,
                             target |-> seen.target, dist |-> seen.dist,
                             stalled |-> IF /\ rule = "seek" /\ lastOp.rule = "seek"
                                            /\ lastOp.bot.seekTicks > 0
                                            /\ seen.target = lastOp.target
                                            /\ seen.dist >= lastOp.dist
                                         THEN lastOp.stalled + 1 ELSE 0,
                             unfed |-> IF /\ rule = "seek" /\ lastOp.rule = "seek"
                                          /\ lastOp.bot.seekTicks > 0
                                          /\ seen.target = lastOp.target
                                          /\ seen.dist >= lastOp.dist
                                          /\ Snakes[Hunter].Score <= lastOp.score
                                       THEN lastOp.unfed + 1 ELSE 0]
    /\ tickCount' = tickCount + 1
    /\ steps' = steps + 1
    /\ lpc' = "players"
    /\ UNCHANGED <<deaths, killMap, gridTick, huntRest>>

\* tick, lines 66-80: the players' inputs applied, their snakes moved
HuntPlayers ==
    /\ lpc = "players"
    /\ \E list \in Orders(conns) :
         LET p == PlayersStep([w |-> WorldNow, out |-> {}], list, HuntDraw)
         IN /\ WorldBecomes(p.w)
            /\ boundaryDeaths' = boundaryDeaths \cup p.out
    /\ lpc' = "resolve"
    /\ UNCHANGED <<bots, lastOp, deaths, killMap, gridTick, tickCount, steps, huntRest>>

\* tick, lines 83-119: the grid rebuilt, collisions, deaths, HandleDeaths,
\* magnet, food eaten, food spawned
HuntResolve ==
    /\ lpc = "resolve"
    /\ \E order \in LoopOrders(DOMAIN Snakes) :
         LET rnd == HuntDraw
             w1 == [WorldNow EXCEPT
                       !.Grid = RebuildGrid(Food, Snakes, FoodOrder(Food), order)]
             dm == MergeBoundary(detectCollisions(w1.Snakes, w1.Grid, order),
                                 boundaryDeaths)
             victims == KeysIn(order, dm)
             pd == ProcessDeaths([w |-> w1, killMap |-> <<>>], dm, victims, rnd)
             w2 == collectFood(applyFoodMagnet(pd.w, order), order)
             w3 == MaintainFoodCount(maybeSpawnMovingFood(w2, tickCount, rnd), rnd)
         IN /\ WorldBecomes(w3)
            /\ deaths' = dm
            /\ killMap' = pd.killMap
            /\ bots' = HandleDeaths(bots, pd.w, dm, victims, <<Hunter>>)
            /\ lastOp' = IF NotifyKillers(bots, pd.w, dm, victims, <<Hunter>>) # bots
                          THEN [lastOp EXCEPT !.since = 0] ELSE lastOp
    /\ boundaryDeaths' = {}
    /\ gridTick' = tickCount
    /\ lpc' = "idle"
    /\ UNCHANGED <<tickCount, steps, huntRest>>

NextHunt == HuntBots \/ HuntPlayers \/ HuntResolve

SpecHunt == InitHunt /\ [][NextHunt]_vars

(***************************************************************************)
(* SpecMoving: Food.UpdateMoving applied tick after tick to one moving     *)
(* food item that is close to the boundary.  Food holds the item under     *)
(* the key 1.                                                              *)
(***************************************************************************)
\* the directions from the centre at which a run places the item, and the
\* angles between its travel direction and that direction (milliradians)
MovingBearings == {0, 644, PI \div 2, PI, -PI \div 2, -2214}
MovingTurns == {0, 700, -1200, PI}
\* MoveTicks as a run starts: the timer runs out in the first tick, in the
\* second, or later than the run lasts
MovingTimers == {1, 2, MovingFoodDirMinTicks}
\* the angles drawn when the timer runs out
MovingAngles == {0, 2500}

\* a moving food item two px inside the boundary in the direction bearing
MovingStart(bearing, turn, ticks) ==
    [NewMovingFood(1, WorldRadius - 2, bearing, normalizeAngle(bearing + turn), ticks)
        EXCEPT !.MoveSpeed = MovingFoodSpeed]

\* lines 431-438: the item as moved is outside the circle
MovedOut(f) ==
    LET x == f.X + Scale(f.MoveSpeed, Cos(f.MoveAngle))
        y == f.Y + Scale(f.MoveSpeed, Sin(f.MoveAngle))
    IN (x - WorldCenterX) * (x - WorldCenterX) + (y - WorldCenterY) * (y - WorldCenterY)
          > WorldRadius * WorldRadius

\* the radial component of the travel direction of f, in millionths of its
\* distance from the centre; positive: away from the centre
RadialSpeed(f) ==
    (f.X - WorldCenterX) * Cos(f.MoveAngle) + (f.Y - WorldCenterY) * Sin(f.MoveAngle)

\* what SpecMoving leaves alone whatever it does
movingRest ==
    <<snake, dropped, foodCounter, collideVars, foodElsewhere, movingElsewhere, gridTick, wmu,
      tickCount, killMap, lpc, boundaryDeaths, connList, li, leaderboard, toRespawn,
      spawning, bots, botUsedNames, botSeq, conns, input, cmu, closed, rpc, msg, msgsLeft,
      payload, tickFood, diedWith, sent, queries, stored, applied, crossed>>

InitMoving ==
    /\ \E b \in MovingBearings, t \in MovingTurns, k \in MovingTimers :
         Food = <<MovingStart(b, t, k)>>
    /\ lastOp = [op |-> "NewMovingFood", outOfBounds |-> FALSE]
    /\ snake = <<>> /\ dropped = <<>> /\ steps = 0 /\ foodCounter = 1
    /\ CollideIdle
    /\ foodElsewhere = 0 /\ movingElsewhere = 0 /\ gridTick = 0
    /\ wmu = Unlocked /\ tickCount = 0 /\ killMap = <<>> /\ lpc = "off"
    /\ boundaryDeaths = {} /\ connList = <<>> /\ li = 0 /\ leaderboard = <<>>
    /\ toRespawn = <<>> /\ spawning = <<>> /\ bots = <<>> /\ botUsedNames = {}
    /\ botSeq = 0 /\ conns = {} /\ input = <<>> /\ cmu = <<>> /\ closed = <<>>
    /\ rpc = <<>> /\ msg = <<>> /\ msgsLeft = <<>> /\ payload = <<>> /\ sent = <<>>
    /\ tickFood = {} /\ diedWith = <<>> /\ crossed = <<>>
    /\ queries = {} /\ stored = <<>> /\ applied = <<>>

\* one call of UpdateMoving.  lastOp is history: outOfBounds tells whether
\* the item as moved was outside the circle, was is the item before the call
MovingUpdate ==
    /\ steps < MaxBounces
    /\ \E newAngle \in MovingAngles :
         Food' = <<UpdateMoving(Food[1], newAngle, MovingFoodDirMinTicks)>>
    /\ lastOp' = [op |-> "UpdateMoving", outOfBounds |-> MovedOut(Food[1]),
                  was |-> Food[1]]
    /\ steps' = steps + 1
    /\ UNCHANGED movingRest

NextMoving == MovingUpdate

SpecMoving == InitMoving /\ [][NextMoving]_vars

(***************************************************************************)
(* SpecEat: steps 8 and 9 of the tick, applyFoodMagnet and collectFood     *)
(* (game_loop.go lines 112-113), applied to the world as the tick has it   *)
(* there: two organisms side by side, two food items near their heads,     *)
(* the spatial index as RebuildGrid built it at line 83.                   *)
(***************************************************************************)
\* the head of organism "a": on the border of two cells of the index
EatHeadX == 53 * GridCellSize
EatHeadY == WorldCenterY
\* organism "b" runs beside "a": the heads out of each other's collision
\* range, close enough for one item to be in reach of both
EatGap == 2 * SnakeHeadRadius + 6

\* where a food item lies, seen from the head of "a"
EatOffsets ==
    {<<15, 0>>, <<16, 0>>, <<12, 9>>, <<-3, -15>>, <<0, 13>>, <<5, 13>>, <<-9, 14>>,
     <<0, -17>>, <<0, 42>>}

\* an organism of the initial length heading east with its head at <<x, y>>
EatSnake(id, x, y, alive) ==
    [NewSnake(id, id, 0, 0, 0) EXCEPT
        !.Segments = [i \in 1..SnakeInitSegments |->
                        <<x - (i - 1) * SnakeSegmentSpacing, y>>],
        !.Alive = alive]

\* a food item at the offset off from the head of "a"
EatFood(id, off, level) ==
    newFoodWithLevel(id, EatHeadX + off[1], EatHeadY + off[2], level, FALSE)

\* what SpecEat leaves alone whatever it does
eatRest ==
    <<snake, dropped, foodCounter, deaths, aliveSnakes, cpc, ci, cj, foodElsewhere,
      movingElsewhere, gridTick, wmu, tickCount, killMap, lpc, boundaryDeaths, connList,
      li, leaderboard, toRespawn, spawning, bots, botUsedNames, botSeq, conns, input,
      cmu, closed, rpc, msg, msgsLeft, payload, tickFood, diedWith, sent, queries,
      stored, applied, crossed>>

\* the world at line 112.  The second organism is alive or a dead one not
\* yet removed; the second item was in the world when the index was built,
\* or was added after it (food of an organism that died in this tick)
InitEat ==
    /\ \E bAlive \in BOOLEAN, off1 \in EatOffsets, off2 \in EatOffsets,
          level \in {FoodLevel1, FoodLevel3}, indexed \in BOOLEAN :
         /\ Snakes = ("a" :> EatSnake("a", EatHeadX, EatHeadY, TRUE))
                     @@ ("b" :> EatSnake("b", EatHeadX, EatHeadY + EatGap, bAlive))
         /\ Food = <<EatFood(1, off1, FoodLevel1), EatFood(2, off2, level)>>
         /\ \E foodOrder \in Orders(IF indexed THEN {1, 2} ELSE {1}),
               snakeOrder \in Orders({"a", "b"}) :
              Grid = RebuildGrid(Food, Snakes, foodOrder, snakeOrder)
    /\ lastOp = [op |-> "RebuildGrid", outOfBounds |-> FALSE]
    /\ snake = <<>> /\ dropped = <<>> /\ steps = 0 /\ foodCounter = 2
    /\ deaths = <<>> /\ aliveSnakes = <<>> /\ cpc = "idle" /\ ci = 0 /\ cj = 0
    /\ foodElsewhere = 0 /\ movingElsewhere = 0 /\ gridTick = 0
    /\ wmu = Unlocked /\ tickCount = 0 /\ killMap = <<>> /\ lpc = "off"
    /\ boundaryDeaths = {} /\ connList = <<>> /\ li = 0 /\ leaderboard = <<>>
    /\ toRespawn = <<>> /\ spawning = <<>> /\ bots = <<>> /\ botUsedNames = {}
    /\ botSeq = 0 /\ conns = {} /\ input = <<>> /\ cmu = <<>> /\ closed = <<>>
    /\ rpc = <<>> /\ msg = <<>> /\ msgsLeft = <<>> /\ payload = <<>> /\ sent = <<>>
    /\ tickFood = {} /\ diedWith = <<>> /\ crossed = <<>>
    /\ queries = {} /\ stored = <<>> /\ applied = <<>>

\* tick, lines 112-113: applyFoodMagnet, then collectFood, each ranging over
\* w.Snakes in an order of its own.  lastOp is history: was is the world
\* before the magnet, pulled the food map between the two calls
EatStep ==
    /\ lastOp.op = "RebuildGrid"
    /\ \E magnetOrder \in Orders(DOMAIN Snakes), eatOrder \in Orders(DOMAIN Snakes) :
         \E w1 \in {applyFoodMagnet(WorldNow, magnetOrder)} :
           \E w2 \in {collectFood(w1, eatOrder)} :
              /\ Snakes' = w2.Snakes
              /\ Food' = w2.Food
              /\ Grid' = w2.Grid
              /\ lastOp' = [op |-> "collectFood", outOfBounds |-> FALSE,
                            was |-> [Snakes |-> Snakes, Food |-> Food],
                            pulled |-> w1.Food]
    /\ steps' = steps + 1
    /\ UNCHANGED eatRest

NextEat == EatStep

SpecEat == InitEat /\ [][NextEat]_vars

(***************************************************************************)
(* SpecGrid: radius queries on a SpatialGrid.  The index holds two         *)
(* organisms and two food items at the western edge of the world, where    *)
(* the cell column 0 begins and the cell rows 51 and 52 meet; the queries  *)
(* are issued at points on both sides of these borders.                    *)
(***************************************************************************)
\* the border of the cell rows 51 and 52
GridRowY == 52 * GridCellSize

\* where the food items lie: on the corner of four cells, next to it, on the
\* far border of column 0, in the next column
GridFoodSpots ==
    {<<1, GridRowY>>, <<5, GridRowY - 1>>, <<20, GridRowY + 7>>, <<40, GridRowY - 26>>,
     <<GridCellSize - 1, GridRowY>>, <<GridCellSize, GridRowY + 20>>}

\* the points queried: west of the world (x < 0), on the borders, inside
GridPoints ==
    {<<-10, GridRowY - 10>>, <<0, GridRowY>>, <<-1, GridRowY - 1>>, <<30, GridRowY - 13>>,
     <<GridCellSize - 10, GridRowY + 10>>, <<-25, GridRowY + 10>>}

\* the radii queried: eating, magnet, collision and look-ahead ranges
GridRadii == {SnakeHeadRadius + FoodRadius, MagnetRadius, EatGap, 100}

\* what SpecGrid leaves alone whatever it does
gridRest ==
    <<snake, dropped, steps, foodCounter, Snakes, Grid, Food, deaths, aliveSnakes, cpc,
      ci, cj, foodElsewhere, movingElsewhere, gridTick, wmu, tickCount, killMap, lpc,
      boundaryDeaths, connList, li, leaderboard, toRespawn, spawning, bots, botUsedNames,
      botSeq, conns, input, cmu, closed, rpc, msg, msgsLeft, payload, tickFood, diedWith,
      sent, queries, stored, applied, crossed>>

\* organism "a" lies along the border of the rows, "b" beside it in the row
\* below, alive or dead (a dead organism is not indexed)
InitGrid ==
    /\ \E bAlive \in BOOLEAN, spot1 \in GridFoodSpots, spot2 \in GridFoodSpots :
         /\ Snakes = ("a" :> EatSnake("a", 80, GridRowY, TRUE))
                     @@ ("b" :> EatSnake("b", 80, GridRowY - EatGap, bAlive))
         /\ Food = <<newFoodWithLevel(1, spot1[1], spot1[2], FoodLevel1, FALSE),
                     newFoodWithLevel(2, spot2[1], spot2[2], FoodLevel3, FALSE)>>
         /\ \E foodOrder \in Orders({1, 2}), snakeOrder \in Orders({"a", "b"}) :
              Grid = RebuildGrid(Food, Snakes, foodOrder, snakeOrder)
    /\ lastOp = [op |-> "RebuildGrid", outOfBounds |-> FALSE]
    /\ snake = <<>> /\ dropped = <<>> /\ steps = 0 /\ foodCounter = 2
    /\ deaths = <<>> /\ aliveSnakes = <<>> /\ cpc = "idle" /\ ci = 0 /\ cj = 0
    /\ foodElsewhere = 0 /\ movingElsewhere = 0 /\ gridTick = 0
    /\ wmu = Unlocked /\ tickCount = 0 /\ killMap = <<>> /\ lpc = "off"
    /\ boundaryDeaths = {} /\ connList = <<>> /\ li = 0 /\ leaderboard = <<>>
    /\ toRespawn = <<>> /\ spawning = <<>> /\ bots = <<>> /\ botUsedNames = {}
    /\ botSeq = 0 /\ conns = {} /\ input = <<>> /\ cmu = <<>> /\ closed = <<>>
    /\ rpc = <<>> /\ msg = <<>> /\ msgsLeft = <<>> /\ payload = <<>> /\ sent = <<>>
    /\ tickFood = {} /\ diedWith = <<>> /\ crossed = <<>>
    /\ queries = {} /\ stored = <<>> /\ applied = <<>>

\* one call of NearbyFood; lastOp holds the arguments and what it returned
GridNearbyFood ==
    /\ \E pt \in GridPoints, radius \in GridRadii :
         lastOp' = [op |-> "NearbyFood", outOfBounds |-> FALSE, at |-> pt,
                    radius |-> radius, excludeID |-> "",
                    found |-> NearbyFood(Grid, pt[1], pt[2], radius)]
    /\ UNCHANGED gridRest

\* one call of NearbySnakeBody
GridNearbySnakeBody ==
    /\ \E pt \in GridPoints, radius \in GridRadii, excludeID \in {"a", "b", "c"} :
         lastOp' = [op |-> "NearbySnakeBody", outOfBounds |-> FALSE, at |-> pt,
                    radius |-> radius, excludeID |-> excludeID,
                    found |-> NearbySnakeBody(Grid, pt[1], pt[2], radius, excludeID)]
    /\ UNCHANGED gridRest

NextGrid == GridNearbyFood \/ GridNearbySnakeBody

SpecGrid == InitGrid /\ [][NextGrid]_vars

(***************************************************************************)
(* Claims checked under SpecSnake                                          *)
(***************************************************************************)
RECURSIVE SumValues(_, _, _)
\* the sum of Food.Value over items lo..hi of a sequence of food
SumValues(food, lo, hi) ==
    IF lo > hi THEN 0
    ELSE IF lo = hi THEN food[lo].Value
    ELSE LET mid == (lo + hi) \div 2
         IN SumValues(food, lo, mid) + SumValues(food, mid + 1, hi)

\* C1: after any sequence of ApplyInput, Move and Grow, a live snake has at
\* least SnakeMinSegments segments and a width in [SnakeBaseWidth, SnakeMaxWidth]
C1_SegmentsAndWidth ==
    snake.Alive =>
        /\ Len(snake.Segments) >= SnakeMinSegments
        /\ snake.Width >= SnakeBaseWidth * WidthScale
        /\ snake.Width <= SnakeMaxWidth * WidthScale

\* C1 witness: a boost tick on which the upkeep cost is due finds the snake
\* at the floor and leaves it there
C1_Witness ==
    /\ lastOp.op = "ApplyInput"
    /\ snake.BoostActive
    /\ snake.BoostTicks % SnakeBoostCostTicks = 0
    /\ Len(snake.Segments) = SnakeMinSegments

\* C10 as claimed: the food a snake drops on death is worth strictly less
\* than its score
C10_ScoreSink ==
    lastOp.op = "DropFood" => SumValues(dropped, 1, Len(dropped)) < snake.Score

\* C11: when a snake of n segments dies, the number of food items its body
\* becomes is within one item of 0.7 * n.
C11_DropsSeventyPercent ==
    lastOp.op = "DropFood"
        => /\ 10 * Len(dropped) >= 7 * Len(snake.Segments) - 10
           /\ 10 * Len(dropped) <= 7 * Len(snake.Segments) + 10

\* C13: the change of heading one ApplyInput applies is at most
\* SnakeMaxTurnRate / (1 + segments * SnakeTurnScaleFactor) in absolute
\* value, and it is the shortest signed angular distance w from the heading
\* to the requested angle (their difference plus a multiple of 2 Pi, within
\* [-Pi, Pi]), or, when w is beyond the limit, the largest turn within the
\* limit with the sign of w.
C13_TurnShortestClamped ==
    lastOp.op = "ApplyInput"
        => LET turn == snake.Angle - lastOp.was.Angle
               per == 1000 + Len(lastOp.was.Segments) * SnakeTurnScaleFactor
               limit == SnakeMaxTurnRate * 1000
           IN /\ turn * per <= limit /\ -turn * per <= limit
              /\ \E k \in -2..2 :
                    LET w == lastOp.angle - lastOp.was.Angle + 2 * PI * k
                    IN /\ w >= -PI /\ w <= PI
                       /\ \/ turn = w
                          \/ w > turn /\ turn > 0 /\ (turn + 1) * per > limit
                          \/ w < turn /\ turn < 0 /\ (1 - turn) * per > limit

\* C13 witness: heading 3 rad, requested -3 rad: the snake has turned up
\* towards Pi, the short way, by its turn limit
C13_Witness ==
    /\ lastOp.op = "ApplyInput"
    /\ lastOp.was.Angle = 3000 /\ lastOp.angle = -3000
    /\ snake.Angle > 3000

\* C14: a snake's heading is within (-Pi, Pi], from NewSnake on.
C14_HeadingInRange == snake.Alive => snake.Angle > -PI /\ snake.Angle <= PI

\* C26: every food item an operation of a snake creates has a level in
\* {1, 3, 5, 10} and a value equal to its level, is flagged moving if and
\* only if its level is 10, and has level 5 if and only if the operation is
\* the conversion of a dead snake to food (DropFood).
C26_FoodTiers ==
    \A i \in 1..Len(dropped) :
        /\ dropped[i].Level \in {FoodLevel1, FoodLevel3, FoodLevel5, FoodLevel10}
        /\ dropped[i].Value = dropped[i].Level
        /\ dropped[i].IsMoving <=> dropped[i].Level = FoodLevel10
        /\ dropped[i].Level = FoodLevel5 <=> lastOp.op = "DropFood"

\* C34: a snake that has boosted k inputs in a row, from boost counter 0
\* and L segments on, has lost min(k \div SnakeBoostCostTicks, L -
\* SnakeMinSegments) segments and as much score, and has emitted no more food
\* items than that; an item emitted lies where the tail removed was; an input
\* without boost sets the speed to normal and the boost counter to 0
C34_BoostCost ==
    /\ [](snake.Alive /\ lastOp.streak.whole =>
            LET lost == Min(snake.BoostTicks \div SnakeBoostCostTicks,
                            lastOp.streak.len - SnakeMinSegments)
            IN /\ Len(snake.Segments) = lastOp.streak.len - lost
               /\ snake.Score = lastOp.streak.score - lost
               /\ lastOp.streak.food <= lost)
    /\ [][lastOp'.op = "ApplyInput" =>
            /\ Len(dropped') <= Len(snake.Segments) - Len(snake'.Segments)
            /\ Len(dropped') <= 1
            /\ \A i \in 1..Len(dropped') :
                  <<dropped'[i].X, dropped'[i].Y>> = snake.Segments[Len(snake.Segments)]
            /\ ~snake'.BoostActive =>
                  snake'.Speed = SnakeNormalSpeed /\ snake'.BoostTicks = 0]_vars

\* a run of boost inputs has cost all the segments above SnakeMinSegments and
\* goes on past the tick at which a further segment would be due
C34_Witness ==
    /\ lastOp.op = "ApplyInput"
    /\ snake.BoostActive
    /\ lastOp.streak.whole
    /\ snake.BoostTicks \div SnakeBoostCostTicks > lastOp.streak.len - SnakeMinSegments
    /\ Len(snake.Segments) = SnakeMinSegments

\* C39: a snake's score equals the number of its segments
C39_ScoreIsLength == snake.Score = Len(snake.Segments)

\* a snake that has eaten and paid for a boost
C39_Witness ==
    /\ snake.Score = Len(snake.Segments)
    /\ lastOp.op = "ApplyInput"
    /\ Len(snake.Segments) < Len(lastOp.was.Segments)
    /\ snake.Score > SnakeInitSegments

(***************************************************************************)
(* Claims checked under SpecCollide                                        *)
(***************************************************************************)
\* squared distance between two points <<x, y>>
Dist2(p, q) == (p[1] - q[1]) * (p[1] - q[1]) + (p[2] - q[2]) * (p[2] - q[2])

\* the other live snakes with a non-head segment within the hit distance of
\* v's head, found by looking at every segment of the world
Hitters(v) ==
    {o \in DOMAIN Snakes \ {v} :
        /\ Snakes[o].Alive
        /\ \E i \in 2..Len(Snakes[o].Segments) :
             Dist2(HeadOf(Snakes[v]), Snakes[o].Segments[i])
                 < (SnakeHeadRadius + SnakeBodyRadius) * (SnakeHeadRadius + SnakeBodyRadius)}

\* two heads closer than twice the head radius
HeadsTouch(a, b) ==
    Dist2(HeadOf(Snakes[a]), HeadOf(Snakes[b])) < (2 * SnakeHeadRadius) * (2 * SnakeHeadRadius)

\* the other live snakes whose head touches v's and whose score is not smaller
HeadRivals(v) ==
    {o \in DOMAIN Snakes \ {v} :
        Snakes[o].Alive /\ HeadsTouch(v, o) /\ Snakes[o].Score >= Snakes[v].Score}

\* C7 as claimed: after the pass, any two live snakes of equal score whose
\* heads touch and of which neither was hit head-to-body are both dead, each
\* killed by the other's name
C7_EqualHeadsBothDie ==
    cpc = "done" =>
        \A a, b \in DOMAIN Snakes :
            ( /\ a # b /\ Snakes[a].Alive /\ Snakes[b].Alive
              /\ Snakes[a].Score = Snakes[b].Score
              /\ HeadsTouch(a, b)
              /\ Hitters(a) = {} /\ Hitters(b) = {} )
            => /\ a \in DOMAIN deaths /\ deaths[a] = Snakes[b].Name
               /\ b \in DOMAIN deaths /\ deaths[b] = Snakes[a].Name

\* C7 amended: when the head-to-head loop examines a pair of live snakes of
\* equal score whose heads touch and neither is marked dead yet (by a
\* head-to-body hit or by an earlier pair), both are marked dead, each with the
\* other's name as killer; and a mark, once made, stays as it is for the pass
C7_EqualHeadsExamined ==
    [][ /\ cpc = "pairs" =>
             LET a == aliveSnakes[ci]
                 b == aliveSnakes[cj]
             IN ( /\ Snakes[a].Score = Snakes[b].Score
                  /\ HeadsTouch(a, b)
                  /\ a \notin DOMAIN deaths /\ b \notin DOMAIN deaths )
                => /\ a \in DOMAIN deaths' /\ deaths'[a] = Snakes[b].Name
                   /\ b \in DOMAIN deaths' /\ deaths'[b] = Snakes[a].Name
        /\ cpc \in {"body", "pairs"} =>
             \A v \in DOMAIN deaths : v \in DOMAIN deaths' /\ deaths'[v] = deaths[v]
      ]_vars

\* C7 witness: the pass is over, two live snakes of equal score whose heads
\* touch were not hit head-to-body, and each is dead by the other's name
C7_Witness ==
    /\ cpc = "done"
    /\ \E a, b \in DOMAIN Snakes :
         /\ a # b /\ Snakes[a].Alive /\ Snakes[b].Alive
         /\ Snakes[a].Score = Snakes[b].Score
         /\ HeadsTouch(a, b)
         /\ Hitters(a) = {} /\ Hitters(b) = {}
         /\ a \in DOMAIN deaths /\ deaths[a] = Snakes[b].Name
         /\ b \in DOMAIN deaths /\ deaths[b] = Snakes[a].Name

\* C8: once the head-to-body loop is over, every live snake whose head is
\* within the hit distance of a non-head segment of another live snake is
\* marked dead with the name of such a snake as killer; and nobody is marked
\* dead without another live snake to blame (a body hit or a head-to-head
\* loss), so never because of its own body
C8_HeadBodyDeaths ==
    cpc \in {"pairs", "done"} =>
        /\ \A v \in DOMAIN Snakes :
             (Snakes[v].Alive /\ Hitters(v) # {})
             => /\ v \in DOMAIN deaths
                /\ deaths[v] \in {Snakes[o].Name : o \in Hitters(v)}
        /\ \A v \in DOMAIN deaths :
             /\ Snakes[v].Alive
             /\ Hitters(v) # {} \/ HeadRivals(v) # {}

\* C8 witness: the pass is over; one live snake was hit and is dead by a
\* hitter's name, another live snake, its own body next to its head, is not
C8_Witness ==
    /\ cpc = "done"
    /\ \E v, u \in DOMAIN Snakes :
         /\ Snakes[v].Alive /\ Hitters(v) # {}
         /\ v \in DOMAIN deaths /\ deaths[v] \in {Snakes[o].Name : o \in Hitters(v)}
         /\ Snakes[u].Alive /\ u \notin DOMAIN deaths
         /\ Dist2(HeadOf(Snakes[u]), Snakes[u].Segments[2])
                < (SnakeHeadRadius + SnakeBodyRadius) * (SnakeHeadRadius + SnakeBodyRadius)

\* C36: the deaths a pass of detectCollisions records, victims and killers,
\* are those it records in every order of the loop over w.Snakes
C36_OrderFree ==
    cpc = "done" =>
        \A order \in Orders(DOMAIN Snakes) : deaths = detectCollisions(Snakes, Grid, order)

(***************************************************************************)
(* Claims checked under Spec and SpecFair                                  *)
(***************************************************************************)
\* C2: every query of the spatial index issued in a tick (the bots' danger
\* and food queries, collision detection, magnet, consumption) reads the
\* index as rebuilt in that tick, never the index of the tick before.
C2_QueriesAfterRebuild == \A q \in queries : q.gridTick = q.tick

\* the goroutine that takes the step: a reader if the step moves its
\* ReadLoop, else the game loop
Actor == IF rpc' # rpc THEN CHOOSE c \in ConnIds : rpc'[c] # rpc[c] ELSE "loop"

\* C3: a step that writes the world (the organism map, the food map, their
\* fields, the spatial index) is taken by the goroutine that holds the
\* world's lock exclusively; a step of the broadcast or death-notice phase
\* that reads the world to build a message is taken with the shared lock
\* held and no writer; and no writer ever holds the lock together with a
\* reader.
C3_WorldLocked ==
    /\ [](wmu.writer = "" \/ wmu.readers = {})
    /\ [][/\ worldVars' # worldVars => wmu.writer = Actor /\ wmu.readers = {}
          /\ (payload' # payload /\ payload'.kind # "none")
                => wmu.writer = "" /\ "loop" \in wmu.readers]_vars

\* C3 witness: a join handler holds the exclusive lock, its snake's world
\* write pending, while the broadcast waits for the shared lock
C3_Witness ==
    \E c \in ConnIds : rpc[c] = "join" /\ wmu.writer = c /\ lpc = "bc_rlock"

\* C4: a state payload built for a live player shows every food item that
\* the tick left in the world (and that is still there) in the cells of the
\* player's viewport: the payload reflects all of the tick's steps.
C4_PayloadWholeTick ==
    (payload.kind = "state" /\ payload.live)
        => \A id \in payload.inView \cap tickFood :
              \E i \in 1..Len(payload.food) : payload.food[i] = id

\* C5: a send of the loop that blocks on one connection returns, and the
\* loop gets to the end of the tick.
C5_BlockedSendReturns == (lpc \in {"bc_blocked", "dn_blocked"}) ~> (lpc = "idle")

\* C6: the input a tick applies to a connection's organism is the pair of
\* the message that connection's reader stored last, and a tick applies at
\* most one sample per connection.
C6_InputApplied ==
    \A c \in ConnIds : applied[c].inp = applied[c].from.msg /\ applied[c].count <= 1

\* C6 witness: a reader stored two input messages before the first tick of
\* the run read the input, and the tick applied the second
C6_Witness ==
    \E c \in ConnIds :
        /\ applied[c].tick = RunningSince + 1
        /\ applied[c].count = 1
        /\ applied[c].from.seq = 2
        /\ applied[c].inp = stored[c].msg

\* C9: an organism whose head crossed the boundary in a tick is in that
\* tick's death set and in the death set of no later tick.  (deaths is the
\* death set of tick gridTick.)
C9_FlaggedOnce ==
    \A id \in DOMAIN crossed :
        /\ gridTick = crossed[id] => id \in DOMAIN deaths
        /\ gridTick > crossed[id] => id \notin DOMAIN deaths

\* the food DropFood makes of the snake of c is added to the world in this
\* step, and no other food
DropAdded(c) ==
    \E rnd \in Draws :
        LET drop == DropFood(Snakes[c], foodCounter + 1, rnd.jx, rnd.jy).food
            added == DOMAIN Food' \ DOMAIN Food
        IN /\ Cardinality(added) = Len(drop)
           /\ \A i \in 1..Len(drop) : \E id \in added : Food'[id] = drop[i]
           /\ \A id \in DOMAIN Food : id \in DOMAIN Food' /\ Food'[id] = Food[id]

\* C15: after onJoin for connection c the world holds one snake with id c,
\* alive and new; a live snake with id c that onJoin found was converted to
\* food: its death drop is in the world after the step.
C15_JoinReplaces ==
    [][\A c \in ConnIds :
          (rpc[c] = "join" /\ rpc'[c] = "read")
              => /\ {id \in DOMAIN Snakes' : Snakes'[id].ID = c} = {c}
                 /\ Snakes'[c].Alive
                 /\ \E d \in JoinDraws :
                       Snakes'[c] = NewSnake(c, NameOf(c), d[1], d[2], d[3])
                 /\ (c \in DOMAIN Snakes /\ Snakes[c].Alive) => DropAdded(c)]_vars

\* C15 witness: before any tick, p1 has joined over its live snake: the new
\* snake is in the world with the food of the old one
C15_Witness ==
    /\ tickCount \in {0, RunningSince} /\ lpc = "idle"
    /\ rpc["p1"] = "read" /\ msgsLeft["p1"] < MaxMsgs
    /\ "p1" \in DOMAIN Snakes /\ Snakes["p1"].Alive
    /\ HeadOf(Snakes["p1"]) = <<WorldCenterX, WorldCenterY>>
    /\ \E id \in DOMAIN Food : id > InitialFoodCount /\ Food[id].Level = FoodLevel3

\* C16: once onDisconnect for connection c has completed, no snake with id c
\* is in the world and c is not registered, in that state and ever after; a
\* live snake with id c that onDisconnect found was converted to food: its
\* death drop is in the world after the step.
C16_DisconnectRemoves ==
    /\ [](\A c \in ConnIds :
             rpc[c] \in {"close", "gone"} => c \notin DOMAIN Snakes /\ c \notin conns)
    /\ [][\A c \in ConnIds :
             (rpc[c] = "disc" /\ rpc'[c] = "close")
                 => /\ c \notin DOMAIN Snakes' /\ c \notin conns'
                    /\ (c \in DOMAIN Snakes /\ Snakes[c].Alive) => DropAdded(c)]_vars

\* C16 witness: before any tick, p1 has joined once and disconnected with
\* its snake alive: the snake's food is in the world, no snake of p1 is, and
\* p1 is not registered
C16_Witness ==
    /\ tickCount \in {0, RunningSince} /\ lpc = "idle"
    /\ rpc["p1"] = "gone" /\ msgsLeft["p1"] = MaxMsgs - 1
    /\ "p1" \notin DOMAIN Snakes /\ "p1" \notin conns
    /\ \E id \in DOMAIN Food : id > InitialFoodCount /\ Food[id].Level = FoodLevel3

\* C17 as claimed: the death notice the loop builds for a connection whose
\* snake died in the tick carries the name that killed it ("Boundary" for a
\* death by the boundary alone) and the score the snake had when it died,
\* whatever the connection's reader does meanwhile
C17_NoticeOfDeath ==
    payload.kind = "death"
        => /\ payload.to \in DOMAIN diedWith
           /\ payload.killer = deaths[payload.to]
           /\ payload.score = diedWith[payload.to]

\* C21: a malformed message is dropped: reading it leaves the connection's
\* buffered input and the world as they were, the connection open and
\* registered, and its reader back at reading the next message.
C21_MalformedDropped ==
    [][\A c \in ConnIds :
          stored'[c].bad > stored[c].bad
              => /\ input' = input /\ worldVars' = worldVars
                 /\ conns' = conns /\ c \in conns /\ closed' = closed /\ ~closed[c]
                 /\ rpc'[c] = "read"]_vars

\* C21 witness: p1 has had a malformed message dropped and an input message
\* stored after it, which is its buffered input
C21_Witness ==
    /\ stored["p1"].bad = 1 /\ stored["p1"].seq > stored["p1"].badAt
    /\ rpc["p1"] = "read" /\ "p1" \in conns /\ ~closed["p1"]
    /\ input["p1"] = stored["p1"].msg

\* the places and levels of the food DropFood makes of the body of s
BodyFood(s) ==
    {[x |-> d.X, y |-> d.Y, level |-> d.Level] :
        d \in UNION {LET drop == DropFood(s, 0, rnd.jx, rnd.jy).food
                     IN {drop[i] : i \in 1..Len(drop)} : rnd \in Draws}}

\* a food item of the place and level k is what a snake alive as the step
\* began leaves in the step: the food of its body, as it was or as it has
\* moved, or the segment a boost costs it
LeftByLive(k) ==
    \E x \in DOMAIN Snakes :
        /\ Snakes[x].Alive
        /\ \/ k \in BodyFood(Snakes[x])
           \/ x \in DOMAIN Snakes' /\ k \in BodyFood(Snakes'[x])
           \/ /\ k.level = FoodLevel3
              /\ <<k.x, k.y>> = Snakes[x].Segments[Len(Snakes[x].Segments)]

\* C35: DropFood is not applied to an organism that is not alive: no step
\* adds to the world the food of the body of an organism that was dead as
\* the step began (food that no organism alive then leaves in the step), and
\* a tick records no killer for it
C35_DropsOnce ==
    [][\A id \in DOMAIN Snakes :
          ~Snakes[id].Alive =>
              /\ \A fid \in DOMAIN Food' \ DOMAIN Food :
                    LET k == [x |-> Food'[fid].X, y |-> Food'[fid].Y,
                              level |-> Food'[fid].Level]
                    IN k \in BodyFood(Snakes[id]) => LeftByLive(k)
              /\ lpc = "resolve" /\ lpc' = "respawns" => id \notin DOMAIN killMap']_vars

\* a tick has found in its deaths a bot that Update had already turned into
\* food, and has passed it over
C35_Witness ==
    /\ lpc = "respawns"
    /\ \E id \in DOMAIN deaths \cap DOMAIN bots :
          /\ id \in DOMAIN crossed /\ crossed[id] = tickCount
          /\ id \in DOMAIN Snakes /\ ~Snakes[id].Alive
          /\ id \notin DOMAIN killMap

\* the goroutines of the server
Goroutines == {"loop"} \cup ConnIds

\* goroutine g holds the world's lock, as the writer or as a reader
HoldsWorld(g) == wmu.writer = g \/ g \in wmu.readers

\* goroutine g holds the mutex of some connection
HoldsConn(g) == \E c \in DOMAIN cmu : cmu[c] = g

\* the goroutines that hold the world's lock
WorldHolders == (IF wmu.writer = "" THEN {} ELSE {wmu.writer}) \cup wmu.readers

\* the goroutine that holds the mutex of connection c
ConnHolder(c) == IF c \in DOMAIN cmu /\ cmu[c] # "" THEN {cmu[c]} ELSE {}

\* the goroutines g waits for: the holders of the lock its next call takes
\* (a handler in ReadLoop may read a join, an input or nothing; a send that
\* blocks in WriteMessage waits for the peer, not for a lock)
WaitsFor(g) ==
    IF g = "loop"
    THEN (IF lpc \in {"respawn_lock", "spawn", "spawn_last"} \/ (lpc = "idle" /\ Ticking)
          THEN WorldHolders
          ELSE IF lpc = "bc_rlock" \/ (lpc = "dn_get" /\ connList[li] \in conns)
          THEN WorldHolders \ wmu.readers
          ELSE IF lpc = "players" /\ connList[li] \in DOMAIN Snakes
                  /\ Snakes[connList[li]].Alive
          THEN ConnHolder(connList[li])
          ELSE IF lpc \in {"bc_send", "dn_send"} THEN ConnHolder(payload.to)
          ELSE {})
    ELSE (IF rpc[g] = "read" /\ msgsLeft[g] > 0 THEN WorldHolders \cup ConnHolder(g)
          ELSE IF rpc[g] = "disc_lock" THEN WorldHolders
          ELSE IF rpc[g] = "close" THEN ConnHolder(g)
          ELSE {})

\* C40: the loop holds the world's lock in no state in which it sends to a
\* connection, takes the list of connections for the broadcast, or is in
\* tickRespawns, SpawnBot or MaintainBotCount outside their own locked
\* sections; a handler holds the world's lock only inside onJoin and
\* onDisconnect and a connection's mutex only inside setInput, so it holds
\* no lock where it waits for one; there is no set of goroutines each
\* waiting for a lock that another of the set holds; and a step that
\* registers or unregisters a connection is taken by a handler that holds
\* no lock.
C40_NoLockCycle ==
    /\ [](/\ lpc \in {"bc_send", "bc_blocked", "dn_send", "dn_blocked", "broadcast",
                      "notices", "respawns", "respawn_lock", "spawn", "spawn_last"}
               => ~HoldsWorld("loop")
          /\ \A c \in ConnIds :
               /\ HoldsWorld(c) => rpc[c] \in {"join", "disc"} /\ ~HoldsConn(c)
               /\ HoldsConn(c) => rpc[c] = "set_boost" /\ cmu[c] = c
               /\ WaitsFor(c) # {} => ~HoldsWorld(c) /\ ~HoldsConn(c)
          /\ \A D \in SUBSET Goroutines :
               D # {} => \E g \in D : WaitsFor(g) \cap D = {})
    /\ [][conns' # conns => ~HoldsWorld(Actor) /\ ~HoldsConn(Actor) /\ Actor # "loop"]_vars

\* C40 witness: the loop is inside a send that blocks, the connection's
\* mutex held, the world's lock free of it; a handler of another connection
\* has taken the world's lock in onJoin meanwhile
C40_Witness ==
    /\ lpc \in {"bc_blocked", "dn_blocked"}
    /\ cmu[payload.to] = "loop"
    /\ ~HoldsWorld("loop")
    /\ \E c \in ConnIds : c # payload.to /\ wmu.writer = c /\ rpc[c] = "join"

(***************************************************************************)
(* Claims checked under SpecWorld                                          *)
(***************************************************************************)
\* the non-moving and the moving food items of a world
NormalCount(w) == Cardinality(DOMAIN w.Food \ MovingIn(w.Food)) + w.foodElsewhere
MovingCount(w) == Cardinality(MovingIn(w.Food)) + w.movingElsewhere

\* C12: one MaintainFoodCount adds exactly
\* min(max(0, TargetFoodCount - nonMovingCount), FoodSpawnPerTick) non-moving
\* items and nothing else: never more than the cap, never more than the
\* deficit, so never past the target, and the moving items neither count
\* nor change.
C12_ReplenishExact ==
    lastOp.op = "MaintainFoodCount"
        => LET before == NormalCount(lastOp.was)
               added == NormalCount(WorldNow) - before
               deficit == TargetFoodCount - before
           IN /\ added = Min(IF deficit > 0 THEN deficit ELSE 0, FoodSpawnPerTick)
              /\ added <= FoodSpawnPerTick
              /\ before <= TargetFoodCount => before + added <= TargetFoodCount
              /\ MovingCount(WorldNow) = MovingCount(lastOp.was)
              /\ \A id \in DOMAIN lastOp.was.Food :
                    id \in DOMAIN Food /\ Food[id] = lastOp.was.Food[id]

\* C12 witness: 500 and more items short with moving food about, the step
\* has added the cap
C12_Witness ==
    /\ lastOp.op = "MaintainFoodCount"
    /\ MovingIn(lastOp.was.Food) # {} /\ lastOp.was.movingElsewhere > 0
    /\ TargetFoodCount - NormalCount(lastOp.was) > FoodSpawnPerTick
    /\ NormalCount(WorldNow) = NormalCount(lastOp.was) + FoodSpawnPerTick

\* p is in the viewport rectangle centred on c
InViewport(p, c) ==
    /\ p[1] >= c[1] - (ViewportWidth \div 2 + ViewportBuffer)
    /\ p[1] <= c[1] + (ViewportWidth \div 2 + ViewportBuffer)
    /\ p[2] >= c[2] - (ViewportHeight \div 2 + ViewportBuffer)
    /\ p[2] <= c[2] + (ViewportHeight \div 2 + ViewportBuffer)

\* the snakes the message built last lists
ListedSnakes == {payload.snakes[i].ID : i \in 1..Len(payload.snakes)}

\* the live snakes, those of the set own apart, with a segment in the
\* viewport of the connection the message is for
SnakesSeen(own) ==
    {id \in DOMAIN Snakes \ own :
        /\ Snakes[id].Alive
        /\ \E i \in 1..Len(Snakes[id].Segments) :
             InViewport(Snakes[id].Segments[i], HeadOf(Snakes[payload.to]))}

IndexedFood ==
    {id \in DOMAIN WorldFood :
        \E k \in DOMAIN Grid : \E i \in 1..Len(Grid[k]) : Grid[k][i].foodID = id}

\* C19 as claimed: the food of a state message holds no item twice, holds
\* every indexed food item of the world inside the viewport and holds no
\* item outside it
C19_FoodInRectangle ==
    (lastOp.op = "broadcast" /\ payload.live)
        => LET c == HeadOf(Snakes[payload.to])
               listed == {payload.food[i] : i \in 1..Len(payload.food)}
           IN /\ Cardinality(listed) = Len(payload.food)
              /\ \A id \in DOMAIN Food \cap IndexedFood :
                    InViewport(<<Food[id].X, Food[id].Y>>, c) => id \in listed
              /\ \A id \in listed : InViewport(<<Food[id].X, Food[id].Y>>, c)

\* the live snakes
LiveSnakes == {id \in DOMAIN Snakes : Snakes[id].Alive}

\* C20: the leaderboard lists live snakes only, each once with its score,
\* min(LeaderboardSize, live snakes) of them, in non-increasing order of
\* score, and no live snake left out has a higher score than one listed.
C20_LeaderboardTop ==
    lastOp.op = "Leaderboard"
        => LET listed == {leaderboard[i].ID : i \in 1..Len(leaderboard)}
           IN /\ listed \subseteq LiveSnakes
              /\ Cardinality(listed) = Len(leaderboard)
              /\ Len(leaderboard) = Min(LeaderboardSize, Cardinality(LiveSnakes))
              /\ \A i \in 1..Len(leaderboard) :
                    /\ leaderboard[i].Score = Snakes[leaderboard[i].ID].Score
                    /\ \A j \in i..Len(leaderboard) :
                          leaderboard[i].Score >= leaderboard[j].Score
                    /\ \A id \in LiveSnakes \ listed :
                          Snakes[id].Score <= leaderboard[i].Score

\* C20 witness: twelve live snakes of different scores, ten listed, a
\* snake left out
C20_Witness ==
    /\ lastOp.op = "Leaderboard"
    /\ Cardinality(LiveSnakes) = Len(WorldRank)
    /\ Len(leaderboard) = LeaderboardSize
    /\ leaderboard[1].Score > leaderboard[LeaderboardSize].Score
    /\ \E id \in LiveSnakes :
         /\ \A i \in 1..Len(leaderboard) : leaderboard[i].ID # id
         /\ Snakes[id].Score < leaderboard[1].Score

(***************************************************************************)
(* Claims checked under SpecAdmit                                          *)
(***************************************************************************)
\* C25: the number of registered connections never exceeds MaxPlayers,
\* whatever the interleaving of the handlers
C25_ConnsBounded == Count(conns) <= MaxPlayers

(***************************************************************************)
(* Claims checked under SpecBots                                           *)
(***************************************************************************)
\* C22: when a bot's organism dies in a tick, a countdown of BotRespawnDelay
\* ticks starts in that tick and is not started again for that death: while
\* the dead bot is tracked its counter is BotRespawnDelay less the calls of
\* MaintainBotCount since; in the call that ends the countdown, the 100th,
\* its id leaves the manager and the world and a live bot with an id never
\* used before takes its place
C22_RespawnCountdown ==
    /\ [](\A b \in DOMAIN crossed :
             /\ b \in DOMAIN bots /\ b \in DOMAIN Snakes /\ ~Snakes[b].Alive
             /\ crossed[b] < BotRespawnDelay
             /\ bots[b].respawnIn = BotRespawnDelay - crossed[b])
    /\ [](\A b \in DOMAIN bots :
             (b \notin DOMAIN Snakes \/ ~Snakes[b].Alive \/ bots[b].respawnIn # 0)
                 => b \in DOMAIN crossed)
    /\ [][\A b \in DOMAIN bots \ DOMAIN bots' :
             /\ b \in DOMAIN crossed /\ crossed[b] = BotRespawnDelay - 1
             /\ b \notin DOMAIN Snakes'
             /\ Cardinality(DOMAIN bots') = Cardinality(DOMAIN bots)
             /\ \E n \in DOMAIN bots' \ DOMAIN bots :
                  /\ n \in DOMAIN Snakes' /\ Snakes'[n].Alive /\ bots'[n].respawnIn = 0
                  /\ \A i \in 1..botSeq : ManagerIds[i] # n]_vars

\* C22 witness: MaintainBotCount has just replaced a bot that died 99 ticks before
C22_Witness ==
    /\ lastOp.op = "MaintainBotCount"
    /\ \E b \in DOMAIN lastOp.was : b \notin DOMAIN bots /\ lastOp.was[b].respawnIn = 1
    /\ botSeq = ManagerBots + 1

\* C23: at the end of every tick the manager tracks exactly BotCount bots,
\* live or awaiting respawn, each with a snake in the world under its id;
\* it never tracks more than BotCount
C23_BotCountKept ==
    /\ Cardinality(DOMAIN bots) + ManagerElsewhere <= BotCount
    /\ lpc = "idle" =>
          /\ Cardinality(DOMAIN bots) + ManagerElsewhere = BotCount
          /\ DOMAIN bots \subseteq DOMAIN Snakes

\* C23 witness: a tick has ended with one bot awaiting respawn and the others live
C23_Witness ==
    /\ lpc = "idle" /\ lastOp.op = "MaintainBotCount"
    /\ \E b \in DOMAIN bots : bots[b].respawnIn > 0 /\ ~Snakes[b].Alive
    /\ \E b \in DOMAIN bots : bots[b].respawnIn = 0 /\ Snakes[b].Alive

\* the names of the pool
PoolNames == {NamePool[i] : i \in DOMAIN NamePool}

\* a name of the pool with a numeric suffix
Suffixed(name) ==
    \E i \in DOMAIN NamePool, k \in 2..(ManagerBots + 1) :
        name = NamePool[i] \o " " \o ToString(k)

\* C24: no two bots tracked, live or awaiting respawn, have the same name,
\* and the name of each is marked in use; a name stops being in use only when
\* the bot that has it is discarded at its respawn; a new bot's name is a
\* pool name, or, if every pool name was in use, a pool name with a numeric
\* suffix, in both cases a name no other bot tracked has
C24_NamesUnique ==
    /\ [](\A a, b \in DOMAIN bots \cap DOMAIN Snakes :
             /\ a # b => Snakes[a].Name # Snakes[b].Name
             /\ Snakes[a].Name \in botUsedNames)
    /\ [][LET new == DOMAIN bots' \ DOMAIN bots
              newNames == {Snakes'[n].Name : n \in new}
          IN /\ botUsedNames \ botUsedNames'
                    \subseteq {Snakes[b].Name : b \in DOMAIN bots \ DOMAIN bots'}
             /\ \A n \in new :
                  /\ \A b \in DOMAIN bots' \ {n} : Snakes'[b].Name # Snakes'[n].Name
                  /\ Snakes'[n].Name \in PoolNames \/ Suffixed(Snakes'[n].Name)
                  /\ Snakes'[n].Name \notin PoolNames => PoolNames \subseteq botUsedNames'
             /\ PoolNames \subseteq botUsedNames' \ newNames
                    => \A n \in new : Suffixed(Snakes'[n].Name)]_vars

\* C24 witness: a bot respawned while every pool name was in use has a name
\* with a suffix, the other bots tracking the pool's names
C24_Witness ==
    /\ lastOp.op = "MaintainBotCount"
    /\ \E n \in DOMAIN bots \ DOMAIN lastOp.was :
          /\ Suffixed(Snakes[n].Name)
          /\ PoolNames = {Snakes[b].Name : b \in DOMAIN bots \ {n}}

\* C29: HandleDeaths sets a rush target on a bot only if that bot's snake
\* killed one of the tick's victims
C29_RushOnlyForKiller ==
    lastOp.op = "HandleDeaths" =>
        \A b \in DOMAIN bots :
            (\/ bots[b].deathFoodTicks # lastOp.was[b].deathFoodTicks
             \/ bots[b].deathFoodX # lastOp.was[b].deathFoodX
             \/ bots[b].deathFoodY # lastOp.was[b].deathFoodY)
                => \E v \in DOMAIN lastOp.killers : lastOp.killers[v] = b

(***************************************************************************)
(* Claims checked under SpecHunt                                           *)
(***************************************************************************)
\* C27: decideBotInput returns the decision of the first rule, in the order
\* boundary, danger, flee, chase, rush, seek, roam, whose guard holds: past
\* the boundary buffer it steers to the centre without boost, a body in the
\* path turns it a right angle without boost whatever its boost countdown,
\* a bigger snake near makes it steer away boosting, a smaller one makes it
\* steer at it, a kill site makes it steer there and counts a tick, food
\* ahead makes it steer at the closest item or break out of an orbit, and
\* otherwise it roams.  The bot is updated as the decision says.
C27_FirstRuleDecides ==
    [][lpc = "idle" /\ lpc' = "players" =>
        LET sn == Snakes[Hunter]
            head == HeadOf(sn)
            bot == bots[Hunter]
            food == updateMovingFood(WorldNow, HuntDraw).Food
            rule == RuleOf(bot, sn, Snakes, food, Grid)
            got == lastOp'
            Toward(x, y) == Atan2(y - head[2], x - head[1])
            D2(fid) == (food[fid].X - head[1]) * (food[fid].X - head[1])
                         + (food[fid].Y - head[2]) * (food[fid].Y - head[2])
            BrokeOut == /\ \E turn \in HuntTurns :
                              got.angle = sn.Angle + PI \div 2 + turn
                        /\ ~got.boost
                        /\ got.bot.seekTicks = 0 /\ got.bot.orbitCount = 0
                        /\ got.bot.wanderTicks = HuntDraw.breakTicks
        IN /\ got.rule = rule
           /\ got.bot.targetAngle = got.angle
           /\ bots'[Hunter] = got.bot
           /\ NearBoundary(sn) =>
                 got.angle = Toward(WorldCenterX, WorldCenterY) /\ ~got.boost
           /\ rule = "danger" =>
                 /\ got.angle \in {sn.Angle - PI \div 2, sn.Angle + PI \div 2}
                 /\ ~got.boost
                 /\ got.bot.boostTicks = bot.boostTicks
           /\ rule = "flee" =>
                 /\ \E id \in BiggerNear(sn, Snakes) :
                       got.angle = Atan2(head[2] - HeadOf(Snakes[id])[2],
                                         head[1] - HeadOf(Snakes[id])[1])
                 /\ got.boost
                 /\ got.bot.boostTicks = 29
           /\ rule = "chase" =>
                 /\ \E id \in SmallerNear(sn, Snakes) :
                       got.angle = Toward(HeadOf(Snakes[id])[1], HeadOf(Snakes[id])[2])
                 /\ got.bot.deathFoodTicks = bot.deathFoodTicks
           /\ rule = "rush" =>
                 /\ got.angle = Toward(bot.deathFoodX, bot.deathFoodY)
                 /\ got.bot.deathFoodTicks = bot.deathFoodTicks - 1
           /\ rule = "seek" =>
                 \/ /\ \E fid \in FoodAhead(sn, food, Grid) :
                          /\ got.angle = Toward(food[fid].X, food[fid].Y)
                          /\ \A other \in FoodAhead(sn, food, Grid) : D2(fid) <= D2(other)
                    /\ got.bot.seekTicks = SeekTicksNow(bot, sn) + 1
                 \/ BrokeOut
           /\ rule = "roam" =>
                 IF SeekTicksNow(bot, sn) >= 60 THEN BrokeOut
                 ELSE got.bot.wanderTicks + 1
                         = (IF bot.wanderTicks <= 0 THEN HuntDraw.roamTicks
                            ELSE bot.wanderTicks)
           /\ rule \in {"seek", "roam"} => got.bot.deathFoodTicks = 0]_vars

\* a body in the path decided the input of a bot whose boost countdown runs
C27_Witness ==
    /\ lastOp.op = "Update"
    /\ lastOp.rule = "danger"
    /\ lastOp.bot.boostTicks > 0
    /\ ~lastOp.boost

\* C28: when the chase rule or the rush rule decides, the boost returned is
\* true only if the bot has more than SnakeMinSegments + 5 segments
C28_BoostAffordable ==
    lastOp.op = "Update" /\ lastOp.rule \in {"chase", "rush"} /\ lastOp.boost
        => lastOp.len > SnakeMinSegments + 5

\* C30: the rush rule decides no input later than 80 ticks after HandleDeaths
\* set the kill site
C30_RushEnds ==
    lastOp.op = "Update" /\ lastOp.rule = "rush" => lastOp.since <= 80

\* C31: when the seek rule has picked the same food item, in front of the
\* bot, in nine calls in a row and found it no closer in each of the last
\* eight, the eighth of these calls forgets the item (seekTicks, orbitCount
\* and lastFoodDist back at 0) and returns no boost and a target heading a
\* quarter turn or more away from the heading the bot has.
C31_OrbitBreaksOut ==
    lastOp.op = "Update" /\ lastOp.stalled >= 8
        => /\ lastOp.bot.seekTicks = 0
           /\ lastOp.bot.orbitCount = 0
           /\ lastOp.bot.lastFoodDist = 0
           /\ ~lastOp.boost
           /\ Abs(normalizeAngle(lastOp.angle - lastOp.heading)) >= PI \div 2

\* what the seek rule does keep: the same of eight calls in a row that found
\* the item no closer and the bot's score no higher than at the call before
OrbitBreaksOutUnfed ==
    lastOp.op = "Update" /\ lastOp.unfed >= 8
        => /\ lastOp.bot.seekTicks = 0
           /\ lastOp.bot.orbitCount = 0
           /\ lastOp.bot.lastFoodDist = 0
           /\ ~lastOp.boost
           /\ Abs(normalizeAngle(lastOp.angle - lastOp.heading)) >= PI \div 2

(***************************************************************************)
(* Claims checked under SpecMoving                                         *)
(***************************************************************************)
\* C32: after a call of UpdateMoving in which the item crossed the boundary,
\* the item is no farther than WorldRadius from the centre and the travel
\* direction it keeps points inward
C32_BounceInward ==
    lastOp.op = "UpdateMoving" /\ lastOp.outOfBounds =>
        /\ (Food[1].X - WorldCenterX) * (Food[1].X - WorldCenterX)
             + (Food[1].Y - WorldCenterY) * (Food[1].Y - WorldCenterY)
               <= WorldRadius * WorldRadius
        /\ RadialSpeed(lastOp.was) > 0
        /\ RadialSpeed(Food[1]) < 0

(***************************************************************************)
(* Claims checked under SpecEat                                            *)
(***************************************************************************)
\* the heads of the organisms alive in the consumption step
EatHeads == {HeadOf(lastOp.was.Snakes[id]) : id \in {i \in DOMAIN Snakes : lastOp.was.Snakes[i].Alive}}

\* the item lies within the eating radius of the head
InReach(f, head) ==
    Dist2(<<f.X, f.Y>>, head) <= (SnakeHeadRadius + FoodRadius) * (SnakeHeadRadius + FoodRadius)

\* the score the organisms gained in the step
ScoreGained(id) == Snakes[id].Score - lastOp.was.Snakes[id].Score

\* the food items the step removed
Eaten == DOMAIN lastOp.was.Food \ DOMAIN Food

RECURSIVE ValueOfAll(_, _)
\* the total value of the items fids of a food map
ValueOfAll(foodMap, fids) ==
    IF fids = {} THEN 0
    ELSE LET fid == CHOOSE f \in fids : TRUE
         IN foodMap[fid].Value + ValueOfAll(foodMap, fids \ {fid})

\* C33: after applyFoodMagnet and collectFood, every food item that the
\* magnet step left within the eating radius of a live organism's head has
\* been removed from the world, and the organisms have grown by its value.
C33_PulledFoodEaten ==
    lastOp.op = "collectFood" =>
        \A fid \in DOMAIN lastOp.pulled :
            (\E head \in EatHeads : InReach(lastOp.pulled[fid], head))
                => fid \in Eaten

\* C38: in the consumption step no item is added or changed in value, every
\* item removed is credited to exactly one live organism, which grows by
\* its value in score and in segments, and a dead organism gains nothing:
\* the scores gained add up to the value of the food removed.
C38_EatenOnce ==
    lastOp.op = "collectFood" =>
        /\ DOMAIN Food \subseteq DOMAIN lastOp.was.Food
        /\ \E eater \in [Eaten -> {id \in DOMAIN Snakes : lastOp.was.Snakes[id].Alive}] :
              \A id \in DOMAIN Snakes :
                  LET gain == ValueOfAll(lastOp.was.Food, {f \in Eaten : eater[f] = id})
                  IN /\ ScoreGained(id) = gain
                     /\ Len(Snakes[id].Segments)
                           = Len(lastOp.was.Snakes[id].Segments) + gain
        /\ ScoreGained("a") + ScoreGained("b") = ValueOfAll(lastOp.was.Food, Eaten)

\* C38 witness: an item of the index lay within the eating radius of both
\* heads, both organisms alive, and has been removed
C38_Witness ==
    /\ lastOp.op = "collectFood"
    /\ \A id \in DOMAIN Snakes : lastOp.was.Snakes[id].Alive
    /\ \E fid \in Eaten :
          /\ \A head \in EatHeads : InReach(lastOp.was.Food[fid], head)
          /\ lastOp.was.Food[fid].Value = FoodLevel3

(***************************************************************************)
(* Claims checked under SpecGrid                                           *)
(***************************************************************************)
\* every entry of every cell of the index
Indexed == UNION {{Grid[k][i] : i \in DOMAIN Grid[k]} : k \in DOMAIN Grid}

\* the entries of the index within the radius of the last query's point
InRadius ==
    {e \in Indexed : Dist2(<<e.x, e.y>>, lastOp.at) <= lastOp.radius * lastOp.radius}

\* what the last query returned, as a set
Found == {lastOp.found[i] : i \in DOMAIN lastOp.found}

\* C37: NearbyFood returns the ids of the food entries of the whole index
\* within the radius of the point, each once, and NearbySnakeBody the body
\* entries of the whole index within the radius that do not belong to the
\* excluded organism, each once; no body entry returned is a head (segIdx 0)
\* or belongs to the excluded organism.
C37_QueryIsScan ==
    /\ lastOp.op = "NearbyFood" =>
          /\ Found = {e.foodID : e \in {i \in InRadius : i.foodID # NoFoodID}}
          /\ Len(lastOp.found) = Cardinality(Found)
    /\ lastOp.op = "NearbySnakeBody" =>
          /\ Found = {e \in InRadius : e.snakeID # "" /\ e.snakeID # lastOp.excludeID}
          /\ Len(lastOp.found) = Cardinality(Found)
          /\ \A e \in Found : e.snakeID # lastOp.excludeID /\ e.segIdx # 0
          /\ \A id \in DOMAIN Snakes :
                Dist2(HeadOf(Snakes[id]), lastOp.at) <= lastOp.radius * lastOp.radius
                    => \A e \in Found : <<e.x, e.y>> # HeadOf(Snakes[id])

\* C37 witness: a query at a point west of the world (x < 0) returned body
\* entries, all of them of cells other than the cell of the point, while
\* segments of the excluded organism and a head lay within the radius
C37_Witness ==
    /\ lastOp.op = "NearbySnakeBody"
    /\ lastOp.at[1] < 0
    /\ Found # {}
    /\ \A e \in Found : keyFor(e.x, e.y) # keyFor(lastOp.at[1], lastOp.at[2])
    /\ \E e \in InRadius : e.snakeID = lastOp.excludeID
    /\ \E id \in DOMAIN Snakes :
          Dist2(HeadOf(Snakes[id]), lastOp.at) <= lastOp.radius * lastOp.radius
=============================================================================
